---- MODULE Spec2Model ----
(***************************************************************************)
(* Verification model of three subsystems of the engine sources:           *)
(*   - UMovieSceneCameraCutTrack   (MovieSceneCameraCutTrack.cpp)          *)
(*   - FMaterialCachedExpressionData / FMaterialCachedParameters           *)
(*                                  (MaterialCachedData.cpp)               *)
(*   - FMiscTrace frame records    (MiscTrace.cpp)                         *)
(* Each subsystem has its own specification over the shared variables.     *)
(***************************************************************************)
EXTENDS Integers, Sequences, FiniteSets, TLC

(***************************************************************************)
(* Bounds                                                                  *)
(***************************************************************************)
MaxSections == 3
MaxStart == 2
MaxNumerator == 2
MaxDenominator == 1
MaxPlayEnd == 1
MaxAddSectionLen == 1
MaxParams == 2
MaxHash == 2
MaxLayerIndex == 0
MaxExprs == 2
MaxFunctionInfos == 3
MaxLayers == 2
MaxLayerParams == 2
MaxClock == 3
MaxWalks == 3
MaxSeqFrames == 4
MaxBases == 8
MaxFrameCalls == 2
MaxUndoDepth == 2

VARIABLES
    Sections,        \* UMovieSceneCameraCutTrack::Sections (ordered list of section objects)
    bCanBlend,       \* UMovieSceneCameraCutTrack::bCanBlend
    PlayEnd,         \* exclusive upper bound of the owning scene's playback range
    TickResolution,  \* owning scene's tick resolution (frame rate Numerator/Denominator)
    lastCall,        \* arguments and return value of the last track operation
    NameHash,        \* FHashedName: the 64-bit hash of each parameter name
    Cached,          \* FMaterialCachedExpressionData (scalar parameter table and reference lists)
    lastFind,        \* argument and result of the last FindParameterIndex
    FrameChannelEnabled,  \* UE_TRACE_CHANNEL(FrameChannel): whether the channel is enabled
    LastFrameCycle,  \* FMiscTraceInternal::LastFrameCycle[TraceFrameType_Count]
    Records,         \* the frame records emitted to the trace stream, in order
    NumFrameCalls,   \* number of OutputBeginFrame/OutputEndFrame calls made so far
    ToolBuilders,    \* UInteractiveToolManager::ToolBuilders (registered identifiers)
    ActiveBuilder,   \* ActiveLeftBuilderName / ActiveRightBuilderName, per side
    ActiveTool,      \* ActiveLeftTool / ActiveRightTool with ActiveLeftToolName / ActiveRightToolName
    CanBuild,        \* what each builder's CanBuildTool answers in the current selection state
    ActiveToolChangeTrackingMode,  \* UInteractiveToolManager::ActiveToolChangeTrackingMode
    UndoStack,       \* transactions of the host's undo history, oldest first
    RedoStack,       \* undone transactions, last undone first
    toolCall,        \* the last tool-manager operation: result, notifications, records emitted
    appendCall,      \* SAnimTimeline: the last commit of the append-frames dialog and what it did
    gridCall,        \* SAnimTimeline: the last two grid-spacing computations
    TimelineTemplate,  \* UTimelineTemplate found for the node (its four track lists), or NoTemplate
    Pins,            \* UK2Node_Timeline: the node's pins, in creation order
    NodeFlags,       \* UK2Node_Timeline: bCanRenameNode and the cached play status
    LoadedUIs,       \* UEditorUtilitySubsystem::LoadedUIs
    TabSpawners,     \* registration names with a tab spawner in the level editor's tab manager
    Assets,          \* what each soft object path currently loads as
    bTabManager,     \* whether the level editor has a tab manager
    uiCall,          \* the last operation on the loaded-UI list and the list before it
    DataTableProp,   \* value of the data-table property handle: a table's row names, or NoTable
    RowNameProp,     \* value(s) of the row-name property handle over the edited objects
    RowNames,        \* FDataTableCustomizationLayout::RowNames
    rowCall,         \* the last InitWidgetContent: what it read, wrote and returned
    TotalSizeBytes,  \* TOctree::TotalSizeBytes of each navigation octree
    STAT_NavigationMemory,                 \* stat counter
    STAT_Navigation_CollisionTreeMemory,   \* stat counter
    octreeCall,      \* the last SetOctreeMemoryUsage call and the sizes at construction
    LayerSetup,      \* the parent instance's material layers and the local (child) layers
    cacheCall,       \* the last UpdateForFunction / UpdateForLayerParameters call and the data before it
    Thread,          \* per thread: its position in OutputBeginFrame/OutputEndFrame and its locals
    Clock,           \* FPlatformTime::Cycles64(): the cycle counter
    Hooks,           \* what the Blutility module has registered with the editor
    moduleCall,      \* FBlutilityModule: the last module call or callback and the module's phase
    Preview,         \* SAnimTimeline: the preview instance, its asset and slider position
    seqCall,         \* the last crop / append / insert handler: transactions, calls made
    baseLoop         \* the loop that divides the rounded frame rate: LowestBase, CommonBases

\* The state of the subsystems, one tuple each.
cameraVars == <<Sections, bCanBlend, PlayEnd, TickResolution, lastCall>>
materialVars == <<NameHash, Cached, lastFind>>
traceVars == <<FrameChannelEnabled, LastFrameCycle, Records, NumFrameCalls>>
toolVars == <<ToolBuilders, ActiveBuilder, ActiveTool, CanBuild, ActiveToolChangeTrackingMode,
              UndoStack, RedoStack, toolCall>>

\* The subsystems other than the camera-cut track, the material cache and
\* the frame trace.
appendVars == <<appendCall>>
gridVars == <<gridCall>>
pinVars == <<TimelineTemplate, Pins, NodeFlags>>
blutilityVars == <<LoadedUIs, TabSpawners, Assets, bTabManager, uiCall>>
dataTableVars == <<DataTableProp, RowNameProp, RowNames, rowCall>>
octreeVars == <<TotalSizeBytes, STAT_NavigationMemory, STAT_Navigation_CollisionTreeMemory,
                octreeCall>>
editorVars == <<appendVars, gridVars, pinVars, blutilityVars, dataTableVars, octreeVars>>

\* Layer-parameter remapping, concurrent frame emission, the Blutility
\* module's hooks, the timeline's sequence edits and the common-base loop.
cacheVars == <<LayerSetup, cacheCall>>
threadVars == <<Thread, Clock>>
moduleVars == <<Hooks, moduleCall>>
sequenceVars == <<Preview, seqCall>>
loopVars == <<baseLoop>>
moreVars == <<cacheVars, threadVars, moduleVars, sequenceVars, loopVars>>
laterVars == <<toolVars, editorVars, moreVars>>

(***************************************************************************)
(* Camera-cut track                                                        *)
(***************************************************************************)
StartTimes == 0..MaxStart
Cameras == {"CamA", "CamB"}
NoSection == 0

\* A section object: identity, range bounds (a missing bound is an open
\* bound) and the camera binding.
MkSection(id, hs, s, he, e, cam) ==
    [id |-> id, hasStart |-> hs, start |-> s, hasEnd |-> he, end |-> e, camera |-> cam]

NoCall ==
    [op |-> "None", ret |-> NoSection, existed |-> FALSE, flags |-> {}, fixup |-> "None"]

SectionIds(secs) == {secs[i].id : i \in 1..Len(secs)}

\* NewObject: an object identity not used by any live section.
NewObjectId(secs) == CHOOSE n \in 1..(Len(secs) + 1) : n \notin SectionIds(secs)

\* Object identities carry no information beyond distinctness: between
\* operations the sections are named by their position in the list.
Canonical(secs) == [i \in 1..Len(secs) |-> [secs[i] EXCEPT !.id = i]]

IndexOf(secs, id) ==
    IF id \in SectionIds(secs) THEN CHOOSE i \in 1..Len(secs) : secs[i].id = id ELSE 0

RemoveIndex(secs, i) == SubSeq(secs, 1, i - 1) \o SubSeq(secs, i + 1, Len(secs))

\* Comparator of SortConsecutiveSections: MinLower(A, B) == A, an open lower
\* bound being the smallest.
LowerBoundLE(a, b) ==
    \/ ~a.hasStart
    \/ (b.hasStart /\ a.start <= b.start)

\* The comparator is not strict, so the order among equal lower bounds is
\* whatever the sort produces: every ordering sorted by lower bound.
RECURSIVE SortedOrders(_, _)
SortedOrders(secs, idxs) ==
    IF idxs = {} THEN {<<>>}
    ELSE UNION {{<<secs[i]>> \o rest : rest \in SortedOrders(secs, idxs \ {i})} :
                  i \in {k \in idxs : \A j \in idxs : LowerBoundLE(secs[k], secs[j])}}

SortConsecutiveSections(secs) == SortedOrders(secs, 1..Len(secs))

IsEmptyRange(sec) == sec.hasStart /\ sec.hasEnd /\ sec.start >= sec.end

\* Previous neighbour: its end is moved to `he/e` unless that would not lie
\* after its own start.
SetPrevEnd(secs, idx, he, e) ==
    IF idx - 1 >= 1 /\ he /\ (~secs[idx - 1].hasStart \/ e > secs[idx - 1].start)
    THEN [secs EXCEPT ![idx - 1].hasEnd = TRUE, ![idx - 1].end = e]
    ELSE secs

SetNextStart(secs, idx, s) ==
    IF idx + 1 <= Len(secs) /\ (~secs[idx + 1].hasEnd \/ s < secs[idx + 1].end)
    THEN [secs EXCEPT ![idx + 1].hasStart = TRUE, ![idx + 1].start = s]
    ELSE secs

\* MovieSceneHelpers::FixupConsecutiveSections: gap-closing fixup of the
\* neighbours of `sec`, followed by a sort.
FixupConsecutiveSections(secs, sec, bDelete) ==
    LET idx == IndexOf(secs, sec.id) IN
    IF IsEmptyRange(sec) THEN {secs}
    ELSE IF idx = 0 THEN SortConsecutiveSections(secs)
    ELSE IF bDelete
         THEN SortConsecutiveSections(SetPrevEnd(secs, idx, sec.hasEnd, sec.end))
         ELSE SortConsecutiveSections(
                 SetNextStart(SetPrevEnd(secs, idx, sec.hasStart, sec.start), idx, sec.end))

\* MovieSceneHelpers::FixupConsecutiveBlendingSections: blend-aware fixup;
\* on insertion only gaps are closed, overlaps are left to be blended.
FixupConsecutiveBlendingSections(secs, sec, bDelete) ==
    LET idx == IndexOf(secs, sec.id)
        gapBefore == idx - 1 >= 1 /\ secs[idx - 1].hasEnd /\ sec.hasStart
                     /\ sec.start - secs[idx - 1].end > 0
        gapAfter == idx + 1 <= Len(secs) /\ secs[idx + 1].hasStart /\ sec.hasEnd
                    /\ secs[idx + 1].start - sec.end > 0
        s1 == IF gapBefore THEN SetPrevEnd(secs, idx, TRUE, sec.start) ELSE secs
        s2 == IF gapAfter THEN SetNextStart(s1, idx, sec.end) ELSE s1
    IN
    IF IsEmptyRange(sec) THEN {secs}
    ELSE IF idx = 0 THEN SortConsecutiveSections(secs)
    ELSE IF bDelete
         THEN SortConsecutiveSections(SetPrevEnd(secs, idx, sec.hasEnd, sec.end))
         ELSE SortConsecutiveSections(s2)

\* .5f * TickResolution as a frame time, of which AddNewCameraCut keeps the
\* whole-frame part (.FrameNumber).
HalfTickResolutionFrames(rate) == rate.Numerator \div (2 * rate.Denominator)

Max(a, b) == IF a >= b THEN a ELSE b

\* Index of the first section, in list order, that starts strictly after
\* StartTime (0 if none).
FirstLaterSection(secs, StartTime) ==
    LET later == {i \in 1..Len(secs) : secs[i].hasStart /\ secs[i].start > StartTime}
    IN IF later = {} THEN 0 ELSE CHOOSE i \in later : \A j \in later : i <= j

\* The end time before the zero-length adjustment.
ScannedEndTime(secs, StartTime) ==
    IF FirstLaterSection(secs, StartTime) # 0
    THEN secs[FirstLaterSection(secs, StartTime)].start
    ELSE Max(PlayEnd, StartTime)

FindEndTimeForCameraCut(secs, StartTime) ==
    LET ExclusiveEndTime == ScannedEndTime(secs, StartTime) IN
    IF StartTime = ExclusiveEndTime
    THEN StartTime + HalfTickResolutionFrames(TickResolution)
    ELSE ExclusiveEndTime

\* Variant of the test below that forgets the end frame.
IsExistingSection_StartOnly(sec, StartTime, EndTime) ==
    sec.hasStart /\ sec.hasEnd /\ sec.start = StartTime

\* The test of the "existing section" loop of AddNewCameraCut.
IsExistingSection(sec, StartTime, EndTime) ==
    sec.hasStart /\ sec.hasEnd /\ sec.start = StartTime /\ sec.end = EndTime

FindExistingSection(secs, StartTime, EndTime) ==
    LET hits == {i \in 1..Len(secs) : IsExistingSection(secs[i], StartTime, EndTime)}
    IN IF hits = {} THEN 0 ELSE CHOOSE i \in hits : \A j \in hits : i <= j

\* The two neighbour fixups of MovieSceneHelpers, by name.
Fixup_Blending == "FixupConsecutiveBlendingSections"
Fixup_GapClosing == "FixupConsecutiveSections"
RunFixup(fixup, secs, sec, bDelete) ==
    IF fixup = Fixup_Blending
    THEN FixupConsecutiveBlendingSections(secs, sec, bDelete)
    ELSE FixupConsecutiveSections(secs, sec, bDelete)

\* The fixup AddNewCameraCut calls: if (bCanBlend) the blending one.
InsertionFixup(bBlend) == IF bBlend THEN Fixup_Blending ELSE Fixup_GapClosing

\* The fixup RemoveSection and RemoveSectionAt call: if (bCanBlend)
\* FixupConsecutiveSections, else FixupConsecutiveBlendingSections.
RemovalFixup(bBlend) == IF bBlend THEN Fixup_GapClosing ELSE Fixup_Blending

\* The section lists RemoveSection can leave: Sections.Remove, then the
\* fixup on the list that no longer holds the section.
RemoveSectionResults(secs, bBlend, id) ==
    LET idx == IndexOf(secs, id)
    IN {Canonical(fixed) :
          fixed \in RunFixup(RemovalFixup(bBlend), RemoveIndex(secs, idx), secs[idx], TRUE)}

\* The section lists RemoveSectionAt can leave: the fixup on the list that
\* still holds the section, then Sections.RemoveAt and a sort.
RemoveSectionAtResults(secs, bBlend, SectionIndex) ==
    UNION {{Canonical(sorted) :
              sorted \in SortConsecutiveSections(RemoveIndex(fixed, SectionIndex))} :
           fixed \in RunFixup(RemovalFixup(bBlend), secs, secs[SectionIndex], TRUE)}

AddNewCameraCut(CameraBindingID, StartTime) ==
    LET NewSectionEndTime == FindEndTimeForCameraCut(Sections, StartTime)
        Existing == FindExistingSection(Sections, StartTime, NewSectionEndTime)
        NewSection ==
            IF Existing # 0
            THEN [Sections[Existing] EXCEPT !.camera = CameraBindingID]
            ELSE MkSection(NewObjectId(Sections), TRUE, StartTime, TRUE,
                           NewSectionEndTime, CameraBindingID)
        Updated ==
            IF Existing # 0
            THEN [Sections EXCEPT ![Existing] = NewSection]
            ELSE Append(Sections, NewSection)
    IN
    /\ Existing # 0 \/ Len(Sections) < MaxSections
    /\ \E sorted \in SortConsecutiveSections(Updated) :
          \E fixed \in RunFixup(InsertionFixup(bCanBlend), sorted, NewSection, FALSE) :
             /\ Sections' = Canonical(fixed)
             /\ lastCall' = [NoCall EXCEPT !.op = "AddNewCameraCut",
                                           !.fixup = InsertionFixup(bCanBlend),
                                           !.ret = IndexOf(fixed, NewSection.id),
                                           !.existed = (Existing # 0)]
    /\ UNCHANGED <<bCanBlend, PlayEnd, TickResolution, NameHash, Cached, lastFind, FrameChannelEnabled, LastFrameCycle, Records, NumFrameCalls>>
    /\ UNCHANGED laterVars

\* AddSection: a camera-cut section object with any range is appended as it
\* is; a section of another class is ignored.
AddSection(sec, isCameraCut) ==
    /\ Len(Sections) < MaxAddSectionLen
    /\ Sections' = IF isCameraCut THEN Canonical(Append(Sections, sec)) ELSE Sections
    /\ lastCall' = [NoCall EXCEPT !.op = "AddSection",
                                  !.ret = IF isCameraCut THEN Len(Sections) + 1 ELSE NoSection]
    /\ UNCHANGED <<bCanBlend, PlayEnd, TickResolution, NameHash, Cached, lastFind, FrameChannelEnabled, LastFrameCycle, Records, NumFrameCalls>>
    /\ UNCHANGED laterVars

AutomaticEasing == "AutomaticEasing"
ManualEaseIn == "ManualEaseIn"
ManualEaseOut == "ManualEaseOut"
ManualEasing == {ManualEaseIn, ManualEaseOut}

\* Variant of the query below without the first/last distinction.
SupportsEasingFlags_AllManual(secs, canBlend, ForSection) ==
    IF ~canBlend THEN {}
    ELSE IF ForSection # NoSection THEN {AutomaticEasing} \cup ManualEasing
    ELSE {AutomaticEasing}

\* SupportsEasing(Params) as a set of flags; ForSection = NoSection is nullptr.
SupportsEasingFlags(secs, canBlend, ForSection) ==
    IF ~canBlend THEN {}
    ELSE IF ForSection # NoSection /\ Len(secs) = 1
         THEN {AutomaticEasing} \cup ManualEasing
    ELSE IF ForSection # NoSection /\ Len(secs) > 1 /\ ForSection = secs[1].id
         THEN {AutomaticEasing, ManualEaseIn}
    ELSE IF ForSection # NoSection /\ Len(secs) > 1 /\ ForSection = secs[Len(secs)].id
         THEN {AutomaticEasing, ManualEaseOut}
    ELSE {AutomaticEasing}

SupportsEasing(ForSection) ==
    /\ lastCall' = [NoCall EXCEPT !.op = "SupportsEasing", !.ret = ForSection,
                                  !.flags = SupportsEasingFlags(Sections, bCanBlend, ForSection)]
    /\ UNCHANGED <<Sections, bCanBlend, PlayEnd, TickResolution, NameHash, Cached, lastFind, FrameChannelEnabled, LastFrameCycle, Records, NumFrameCalls>>
    /\ UNCHANGED laterVars

\* RemoveSection: the section is taken out of the list first, then the
\* fixup is chosen by bCanBlend as the source does.
RemoveSection(id) ==
    /\ IndexOf(Sections, id) # 0
    /\ Sections' \in RemoveSectionResults(Sections, bCanBlend, id)
    /\ lastCall' = [NoCall EXCEPT !.op = "RemoveSection", !.fixup = RemovalFixup(bCanBlend)]
    /\ UNCHANGED <<bCanBlend, PlayEnd, TickResolution, NameHash, Cached, lastFind, FrameChannelEnabled, LastFrameCycle, Records, NumFrameCalls>>
    /\ UNCHANGED laterVars

RemoveSectionAt(SectionIndex) ==
    /\ SectionIndex \in 1..Len(Sections)
    /\ Sections' \in RemoveSectionAtResults(Sections, bCanBlend, SectionIndex)
    /\ lastCall' = [NoCall EXCEPT !.op = "RemoveSectionAt", !.fixup = RemovalFixup(bCanBlend)]
    /\ UNCHANGED <<bCanBlend, PlayEnd, TickResolution, NameHash, Cached, lastFind, FrameChannelEnabled, LastFrameCycle, Records, NumFrameCalls>>
    /\ UNCHANGED laterVars


(***************************************************************************)
(* Material parameter cache                                                *)
(***************************************************************************)
INDEX_NONE == -1
InvalidGuid == 0
Guids == {1, 2}
Names == {"N1", "N2"}
Values == {1, 2}

\* EMaterialParameterAssociation, compared by its enumerator value.
LayerParameter == 0
BlendParameter == 1
GlobalParameter == 2

\* FMaterialParameterInfo
MkInfo(name, assoc, index) == [Name |-> name, Association |-> assoc, Index |-> index]

Scopes ==
    {<<GlobalParameter, -1>>} \cup {<<LayerParameter, i>> : i \in 0..MaxLayerIndex}

ParameterInfoSet == {MkInfo(n, sc[1], sc[2]) : n \in Names, sc \in Scopes}

\* TArray::Insert at a 0-based index.
InsertAt(arr, Index, x) == SubSeq(arr, 1, Index) \o <<x>> \o SubSeq(arr, Index + 1, Len(arr))

\* Algo::LowerBound / Algo::UpperBound: binary search over the view that
\* starts at 0-based offset First; before[i] tells whether the predicate
\* puts element i before the searched value.  The result is relative to First.
RECURSIVE BoundSearch(_, _, _, _)
BoundSearch(before, First, Start, Size) ==
    IF Size <= 0 THEN Start
    ELSE LET LeftoverSize == Size % 2
             Half == Size \div 2
             CheckIndex == Start + Half
             StartIfLess == CheckIndex + LeftoverSize
         IN BoundSearch(before, First,
                        IF before[First + CheckIndex + 1] THEN StartIfLess ELSE Start,
                        Half)

LowerBoundHash(hashes, First, Num, h) ==
    BoundSearch([i \in 1..Len(hashes) |-> hashes[i] < h], First, 0, Num)

UpperBoundHash(hashes, First, Num, h) ==
    BoundSearch([i \in 1..Len(hashes) |-> ~(h < hashes[i])], First, 0, Num)

\* Variant of CompareFunc that orders by index only.
CompareFunc_IndexOnly(Lhs, Rhs) == Lhs.Index < Rhs.Index

\* CompareFunc of FindParameterLowerBoundIndex.
CompareFunc(Lhs, Rhs) ==
    IF Lhs.Association # Rhs.Association
    THEN Lhs.Association < Rhs.Association
    ELSE Lhs.Index < Rhs.Index

LowerBoundBy(infos, First, Num, info) ==
    BoundSearch([i \in 1..Len(infos) |-> CompareFunc(infos[i], info)], First, 0, Num)

\* FMaterialCachedParameterEntry
EmptyEntry == [NameHashes |-> <<>>, ParameterInfos |-> <<>>, ExpressionGuids |-> <<>>,
               Overrides |-> <<>>]

\* The hashed form of a parameter info keeps the hash of the name only.
FindParameterLowerBoundIndex(Entry, hash, info) ==
    LET Num == Len(Entry.NameHashes)
        LowerIndex == LowerBoundHash(Entry.NameHashes, 0, Num, hash)
        UpperIndex == LowerIndex + UpperBoundHash(Entry.NameHashes, LowerIndex,
                                                  Num - LowerIndex, hash)
    IN IF LowerIndex < Num /\ UpperIndex - LowerIndex > 0
       THEN LowerIndex + LowerBoundBy(Entry.ParameterInfos, LowerIndex,
                                      UpperIndex - LowerIndex, info)
       ELSE LowerIndex

\* Variant of TryAddParameter that never updates an existing entry.
TryAddParameter_NoLatch(Entry, ParameterInfo, ExpressionGuid, bOverride) ==
    LET hash == NameHash[ParameterInfo.Name]
        Index == FindParameterLowerBoundIndex(Entry, hash, ParameterInfo)
    IN IF Index >= Len(Entry.NameHashes) \/ Entry.ParameterInfos[Index + 1] # ParameterInfo
       THEN [entry |-> [NameHashes |-> InsertAt(Entry.NameHashes, Index, hash),
                        ParameterInfos |-> InsertAt(Entry.ParameterInfos, Index, ParameterInfo),
                        ExpressionGuids |-> InsertAt(Entry.ExpressionGuids, Index, ExpressionGuid),
                        Overrides |-> InsertAt(Entry.Overrides, Index, bOverride)],
             index |-> Index]
       ELSE [entry |-> Entry, index |-> INDEX_NONE]

\* TryAddParameter: the entry after the call and the returned index.
TryAddParameter(Entry, ParameterInfo, ExpressionGuid, bOverride) ==
    LET hash == NameHash[ParameterInfo.Name]
        Index == FindParameterLowerBoundIndex(Entry, hash, ParameterInfo)
    IN IF Index >= Len(Entry.NameHashes) \/ Entry.ParameterInfos[Index + 1] # ParameterInfo
       THEN [entry |-> [NameHashes |-> InsertAt(Entry.NameHashes, Index, hash),
                        ParameterInfos |-> InsertAt(Entry.ParameterInfos, Index, ParameterInfo),
                        ExpressionGuids |-> InsertAt(Entry.ExpressionGuids, Index, ExpressionGuid),
                        Overrides |-> InsertAt(Entry.Overrides, Index, bOverride)],
             index |-> Index]
       ELSE IF Entry.Overrides[Index + 1] /\ Entry.ExpressionGuids[Index + 1] = InvalidGuid
       THEN [entry |-> [Entry EXCEPT !.ExpressionGuids[Index + 1] = ExpressionGuid],
             index |-> INDEX_NONE]
       ELSE [entry |-> Entry, index |-> INDEX_NONE]

\* FMaterialCachedParameters::FindParameterIndex(Type, HashedParameterInfo)
FindParameterIndex(Entry, hash, info) ==
    LET Index == FindParameterLowerBoundIndex(Entry, hash, info) IN
    IF /\ Index < Len(Entry.NameHashes)
       /\ Entry.NameHashes[Index + 1] = hash
       /\ Entry.ParameterInfos[Index + 1].Association = info.Association
       /\ Entry.ParameterInfos[Index + 1].Index = info.Index
    THEN Index
    ELSE INDEX_NONE

\* FMaterialCachedExpressionData after Reset().
\* Entry is Entries[Scalar] and FontEntry is Entries[Font]; Walks lists, in
\* order, the expression lists UpdateForFunction has handed to
\* UpdateForExpressions (history only, the program keeps no such list).
ResetData ==
    [Entry |-> EmptyEntry, ScalarValues |-> <<>>, ScalarMinMaxValues |-> <<>>,
     ScalarCurveValues |-> <<>>, ScalarCurveAtlasValues |-> <<>>,
     FontEntry |-> EmptyEntry, FontValues |-> <<>>, FontPageValues |-> <<>>,
     ReferencedTextures |-> <<>>, FunctionInfos |-> <<>>,
     ParameterCollectionInfos |-> <<>>, GrassTypes |-> <<>>, Walks |-> <<>>]

\* FVector2D() of an override and the slider range of an expression.
DefaultMinMax == "FVector2D()"
SliderMinMax == "SliderMinMax"
\* The parameters of the model are not atlas positions: nullptr curves.
NoCurve == "nullptr"

\* Variant of the scalar insertion that leaves the two curve arrays alone.
InsertScalarValues_NoCurve(cd, Index, Value, MinMax) ==
    [cd EXCEPT !.ScalarValues = InsertAt(@, Index, Value),
               !.ScalarMinMaxValues = InsertAt(@, Index, MinMax)]

\* The four Insert calls into the scalar value arrays at Index.
InsertScalarValues(cd, Index, Value, MinMax) ==
    [cd EXCEPT !.ScalarValues = InsertAt(@, Index, Value),
               !.ScalarMinMaxValues = InsertAt(@, Index, MinMax),
               !.ScalarCurveValues = InsertAt(@, Index, NoCurve),
               !.ScalarCurveAtlasValues = InsertAt(@, Index, NoCurve)]

\* The two Insert calls into the font value arrays at Index.
InsertFontValues(cd, Index, Font, FontPage) ==
    [cd EXCEPT !.FontValues = InsertAt(@, Index, Font),
               !.FontPageValues = InsertAt(@, Index, FontPage)]

\* The tail of an insertion into the scalar table: the entry TryAddParameter
\* returned is stored and, when it gave an index, the value arrays grow there.
StoreScalar(cd, r, Value, MinMax) ==
    IF r.index # INDEX_NONE
    THEN InsertScalarValues([cd EXCEPT !.Entry = r.entry], r.index, Value, MinMax)
    ELSE [cd EXCEPT !.Entry = r.entry]

\* The tail of an insertion into the font table.
StoreFont(cd, r, Font, FontPage) ==
    IF r.index # INDEX_NONE
    THEN InsertFontValues([cd EXCEPT !.FontEntry = r.entry], r.index, Font, FontPage)
    ELSE [cd EXCEPT !.FontEntry = r.entry]

\* One scalar value of a function instance (UpdateForFunction) or of a parent
\* instance (UpdateForLayerParameters): an override entry without expression.
AddScalarOverride(cd, info, value) ==
    StoreScalar(cd, TryAddParameter(cd.Entry, info, InvalidGuid, TRUE), value, DefaultMinMax)

\* One font value of a function instance or of a parent instance.
AddFontOverride(cd, info, Font, FontPage) ==
    StoreFont(cd, TryAddParameter(cd.FontEntry, info, InvalidGuid, TRUE), Font, FontPage)

\* One scalar parameter expression (UpdateForExpressions).
AddScalarExpression(cd, info, guid, value) ==
    StoreScalar(cd, TryAddParameter(cd.Entry, info, guid, FALSE), value, SliderMinMax)

\* One font parameter expression (UpdateForExpressions).
AddFontExpression(cd, info, guid, Font, FontPage) ==
    StoreFont(cd, TryAddParameter(cd.FontEntry, info, guid, FALSE), Font, FontPage)

NoFind == [info |-> MkInfo("", GlobalParameter, -1), index |-> INDEX_NONE, asked |-> FALSE]

NoTexture == "null"
NoCollection == "null"
NoFunction == "null"

\* A material expression: its class (kind) and the members the update reads.
MkExpression(kind, name, guid, value, canRef, tex, coll, grass, fn, layers, blends) ==
    [kind |-> kind, Name |-> name, ExpressionGUID |-> guid, DefaultValue |-> value,
     CanReferenceTexture |-> canRef, ReferencedTexture |-> tex, Collection |-> coll,
     GrassTypes |-> grass, MaterialFunction |-> fn, Layers |-> layers, Blends |-> blends]

ScalarParameterExpr(name, guid, value) ==
    MkExpression("ScalarParameter", name, guid, value, FALSE, NoTexture, NoCollection,
                 <<>>, NoFunction, <<>>, <<>>)
TextureSampleExpr(tex) ==
    MkExpression("TextureSample", "", InvalidGuid, 0, TRUE, tex, NoCollection,
                 <<>>, NoFunction, <<>>, <<>>)
CollectionParameterExpr(coll) ==
    MkExpression("CollectionParameter", "", InvalidGuid, 0, FALSE, NoTexture, coll,
                 <<>>, NoFunction, <<>>, <<>>)
GrassOutputExpr(grass) ==
    MkExpression("LandscapeGrassOutput", "", InvalidGuid, 0, FALSE, NoTexture, NoCollection,
                 grass, NoFunction, <<>>, <<>>)
\* A font sample parameter: DefaultValue holds the font, texture page 0.
FontParameterExpr(name, guid, font) ==
    MkExpression("FontSampleParameter", name, guid, font, FALSE, NoTexture, NoCollection,
                 <<>>, NoFunction, <<>>, <<>>)
FunctionCallExpr(fn) ==
    MkExpression("MaterialFunctionCall", "", InvalidGuid, 0, FALSE, NoTexture, NoCollection,
                 <<>>, fn, <<>>, <<>>)
LayersExpr(layers, blends) ==
    MkExpression("MaterialAttributeLayers", "", InvalidGuid, 0, FALSE, NoTexture, NoCollection,
                 <<>>, NoFunction, layers, blends)

\* The material functions of the model: a leaf function, a function that
\* depends on the leaf, and an instance of the latter with one scalar value.
FunctionNames == {"Leaf", "Caller", "Instance"}
\* A function without dependents that holds a font and a scalar parameter.
GlyphFunction == "Glyphs"
GlyphExpressions == <<FontParameterExpr("N1", 2, "FontA"), ScalarParameterExpr("N2", 2, 2)>>

LeafExpressions == <<ScalarParameterExpr("N1", 2, 2), CollectionParameterExpr("Coll")>>
CallerExpressions == <<ScalarParameterExpr("N1", 1, 1), TextureSampleExpr("Tex1")>>

\* GetFunctionExpressions: an instance exposes the expressions of its base.
GetFunctionExpressions(fn) ==
    IF fn = "Leaf" THEN LeafExpressions
    ELSE IF fn = GlyphFunction THEN GlyphExpressions
    ELSE CallerExpressions

\* IterateDependentFunctions: the functions visited, in order.
DependentFunctions(fn) ==
    IF fn = "Leaf" \/ fn = GlyphFunction THEN <<>>
    ELSE IF fn = "Caller" THEN <<"Leaf">>
    ELSE <<"Leaf", "Caller">>

\* ScalarParameterValues of a function instance.
InstanceScalarValues(fn) ==
    IF fn = "Instance" THEN <<[Name |-> "N2", ParameterValue |-> 2]>> ELSE <<>>

\* FontParameterValues of a function instance.
InstanceFontValues(fn) ==
    IF fn = "Instance" THEN <<[Name |-> "N1", FontValue |-> "FontB", FontPage |-> 1]>> ELSE <<>>

IsFunctionInstance(fn) == fn = "Instance"

FunctionStateId(fn) ==
    IF fn = "Leaf" THEN 1 ELSE IF fn = "Caller" THEN 2 ELSE IF fn = "Instance" THEN 3 ELSE 4
CollectionStateId(coll) == 7

\* TArray::AddUnique
AddUnique(arr, x) == IF \E i \in 1..Len(arr) : arr[i] = x THEN arr ELSE Append(arr, x)

RECURSIVE AddAllUnique(_, _)
AddAllUnique(arr, xs) ==
    IF xs = <<>> THEN arr ELSE AddAllUnique(AddUnique(arr, Head(xs)), Tail(xs))

\* The loop over ScalarParameterValues of a function instance.
RECURSIVE AddInstanceScalars(_, _, _, _)
AddInstanceScalars(cd, params, Association, ParameterIndex) ==
    IF params = <<>> THEN cd
    ELSE AddInstanceScalars(
            AddScalarOverride(cd, MkInfo(Head(params).Name, Association, ParameterIndex),
                              Head(params).ParameterValue),
            Tail(params), Association, ParameterIndex)

\* The loop over FontParameterValues of a function instance.
RECURSIVE AddInstanceFonts(_, _, _, _)
AddInstanceFonts(cd, params, Association, ParameterIndex) ==
    IF params = <<>> THEN cd
    ELSE AddInstanceFonts(
            AddFontOverride(cd, MkInfo(Head(params).Name, Association, ParameterIndex),
                            Head(params).FontValue, Head(params).FontPage),
            Tail(params), Association, ParameterIndex)

\* The state `c` reached so far is made a value, as at the end of a loop
\* pass of the program, and handed to what follows.
Sequenced(c, Rest(_)) == CHOOSE r \in {Rest(x) : x \in {c}} : TRUE

\* History: the expression list of `fn` is about to be walked, as the list of
\* a dependent function or as the own list of the function being updated.
NoteWalk(cd, fn, bOwn) == [cd EXCEPT !.Walks = Append(@, [list |-> fn, own |-> bOwn])]

RECURSIVE UpdateForExpressions(_, _, _, _, _)
RECURSIVE UpdateForFunction(_, _, _, _)
RECURSIVE UpdateForDependents(_, _, _, _)
RECURSIVE UpdateForLayerList(_, _, _, _)

\* The loop of DependentFunctionLamba over the dependent functions.
UpdateForDependents(cd, deps, Association, ParameterIndex) ==
    IF deps = <<>> THEN cd
    ELSE Sequenced(UpdateForExpressions(NoteWalk(cd, Head(deps), FALSE), FALSE,
                                        GetFunctionExpressions(Head(deps)),
                                        Association, ParameterIndex),
                   LAMBDA c : UpdateForDependents(c, Tail(deps), Association, ParameterIndex))

\* The loops over the values of a function instance (none for a function
\* that is not an instance).
AddInstanceValues(cd, Function, Association, ParameterIndex) ==
    IF IsFunctionInstance(Function)
    THEN AddInstanceFonts(AddInstanceScalars(cd, InstanceScalarValues(Function),
                                             Association, ParameterIndex),
                          InstanceFontValues(Function), Association, ParameterIndex)
    ELSE cd

\* Variant of UpdateForFunction that walks the function's own list before
\* the lists of its dependent functions.
UpdateForFunction_OwnFirst(cd, Function, Association, ParameterIndex) ==
    IF Function = NoFunction THEN cd
    ELSE LET c1 == AddInstanceValues(cd, Function, Association, ParameterIndex)
             c2 == UpdateForExpressions(NoteWalk(c1, Function, TRUE), FALSE,
                                        GetFunctionExpressions(Function),
                                        Association, ParameterIndex)
             c3 == UpdateForDependents(c2, DependentFunctions(Function),
                                       Association, ParameterIndex)
         IN [c3 EXCEPT !.FunctionInfos =
                Append(@, [Function |-> Function, StateId |-> FunctionStateId(Function)])]

UpdateForFunction(cd, Function, Association, ParameterIndex) ==
    IF Function = NoFunction THEN cd
    ELSE LET c1 == AddInstanceValues(cd, Function, Association, ParameterIndex)
             c2 == UpdateForDependents(c1, DependentFunctions(Function),
                                       Association, ParameterIndex)
             c3 == UpdateForExpressions(NoteWalk(c2, Function, TRUE), FALSE,
                                        GetFunctionExpressions(Function),
                                        Association, ParameterIndex)
         IN [c3 EXCEPT !.FunctionInfos =
                Append(@, [Function |-> Function, StateId |-> FunctionStateId(Function)])]

\* One loop of UpdateForLayerFunctions: functions fns[k..] with 0-based
\* index k - 1 under the given association.
UpdateForLayerList(cd, fns, k, Association) ==
    IF k > Len(fns) THEN cd
    ELSE Sequenced(UpdateForFunction(cd, fns[k], Association, k - 1),
                   LAMBDA c : UpdateForLayerList(c, fns, k + 1, Association))

UpdateForLayerFunctions(cd, Layers, Blends) ==
    UpdateForLayerList(UpdateForLayerList(cd, Layers, 1, LayerParameter),
                       Blends, 1, BlendParameter)

\* The body of the loop of UpdateForExpressions for one expression.
UpdateForExpression(cd, bUpdateFunctionExpressions, Expression, Association, ParameterIndex) ==
    LET c1 == IF Expression.CanReferenceTexture
              THEN [cd EXCEPT !.ReferencedTextures = AddUnique(@, Expression.ReferencedTexture)]
              ELSE cd
    IN CASE Expression.kind = "ScalarParameter" ->
              AddScalarExpression(c1, MkInfo(Expression.Name, Association, ParameterIndex),
                                  Expression.ExpressionGUID, Expression.DefaultValue)
         [] Expression.kind = "FontSampleParameter" ->
              AddFontExpression(c1, MkInfo(Expression.Name, Association, ParameterIndex),
                                Expression.ExpressionGUID, Expression.DefaultValue, 0)
         [] Expression.kind = "CollectionParameter" ->
              IF Expression.Collection # NoCollection
              THEN [c1 EXCEPT !.ParameterCollectionInfos =
                       AddUnique(@, [ParameterCollection |-> Expression.Collection,
                                     StateId |-> CollectionStateId(Expression.Collection)])]
              ELSE c1
         [] Expression.kind = "LandscapeGrassOutput" ->
              [c1 EXCEPT !.GrassTypes = AddAllUnique(@, Expression.GrassTypes)]
         [] Expression.kind = "MaterialFunctionCall" /\ bUpdateFunctionExpressions ->
              UpdateForFunction(c1, Expression.MaterialFunction, GlobalParameter, -1)
         [] Expression.kind = "MaterialAttributeLayers" /\ bUpdateFunctionExpressions ->
              UpdateForLayerFunctions(c1, Expression.Layers, Expression.Blends)
         [] OTHER -> c1

UpdateForExpressions(cd, bUpdateFunctionExpressions, Expressions, Association, ParameterIndex) ==
    IF Expressions = <<>> THEN cd
    ELSE Sequenced(UpdateForExpression(cd, bUpdateFunctionExpressions, Head(Expressions),
                                       Association, ParameterIndex),
                   LAMBDA c : UpdateForExpressions(c, bUpdateFunctionExpressions,
                                                   Tail(Expressions), Association,
                                                   ParameterIndex))

\* TArray::Find: the 0-based index of the first element equal to Item.
ArrayFind(Array, Item) ==
    IF \E j \in 1..Len(Array) : Array[j] = Item
    THEN (CHOOSE j \in 1..Len(Array) :
             Array[j] = Item /\ \A k \in 1..(j - 1) : Array[k] # Item) - 1
    ELSE INDEX_NONE

\* GetLocalLayerParameterInfo returning false; bCheck tells whether the
\* check(LocalLayerIndex > 0) of the blend case held.
NoLocalInfo == [ret |-> FALSE, bCheck |-> TRUE, info |-> MkInfo("", GlobalParameter, -1)]

\* Variant that treats a blend parameter like a layer parameter.
GetLocalLayerParameterInfo_NoBlendOffset(MaterialLayers, ParameterInfo, LocalMaterialLayers) ==
    IF ParameterInfo.Association = GlobalParameter THEN NoLocalInfo
    ELSE LET LayerGuid == MaterialLayers.LayerGuids[ParameterInfo.Index + 1]
             LocalLayerIndex == ArrayFind(LocalMaterialLayers.ParentLayerGuids, LayerGuid)
         IN IF LocalLayerIndex # INDEX_NONE
            THEN [ret |-> TRUE, bCheck |-> TRUE,
                  info |-> [ParameterInfo EXCEPT !.Index = LocalLayerIndex]]
            ELSE NoLocalInfo

\* GetLocalLayerParameterInfo: the return value and OutLocalParameterInfo.
GetLocalLayerParameterInfo(MaterialLayers, ParameterInfo, LocalMaterialLayers) ==
    IF ParameterInfo.Association = GlobalParameter THEN NoLocalInfo
    ELSE LET SrcLayerIndex == IF ParameterInfo.Association = BlendParameter
                              THEN ParameterInfo.Index + 1 ELSE ParameterInfo.Index
             LayerGuid == MaterialLayers.LayerGuids[SrcLayerIndex + 1]
             LocalLayerIndex == ArrayFind(LocalMaterialLayers.ParentLayerGuids, LayerGuid)
         IN IF LocalLayerIndex # INDEX_NONE
            THEN [ret |-> TRUE,
                  bCheck |-> (ParameterInfo.Association = BlendParameter => LocalLayerIndex > 0),
                  info |-> [ParameterInfo EXCEPT !.Index =
                               IF ParameterInfo.Association = BlendParameter
                               THEN LocalLayerIndex - 1 ELSE LocalLayerIndex]]
            ELSE NoLocalInfo

\* The loop over the parent's MaterialLayersParameters: the first one whose
\* ParameterInfo equals that of LayerParameters.
RECURSIVE FindParentMaterialLayers(_, _)
FindParentMaterialLayers(MaterialLayersParameters, ParameterInfo) ==
    IF MaterialLayersParameters = <<>> THEN [bFound |-> FALSE, LayerGuids |-> <<>>]
    ELSE IF Head(MaterialLayersParameters).ParameterInfo = ParameterInfo
    THEN [bFound |-> TRUE, LayerGuids |-> Head(MaterialLayersParameters).Value.LayerGuids]
    ELSE FindParentMaterialLayers(Tail(MaterialLayersParameters), ParameterInfo)

\* The loop over the parent's ScalarParameterValues.
RECURSIVE AddLayerScalars(_, _, _, _)
AddLayerScalars(cd, params, ParentMaterialLayers, LocalMaterialLayers) ==
    IF params = <<>> THEN cd
    ELSE LET r == GetLocalLayerParameterInfo(ParentMaterialLayers, Head(params).ParameterInfo,
                                             LocalMaterialLayers)
         IN AddLayerScalars(IF r.ret
                            THEN AddScalarOverride(cd, r.info, Head(params).ParameterValue)
                            ELSE cd,
                            Tail(params), ParentMaterialLayers, LocalMaterialLayers)

\* The loop over the parent's FontParameterValues.
RECURSIVE AddLayerFonts(_, _, _, _)
AddLayerFonts(cd, params, ParentMaterialLayers, LocalMaterialLayers) ==
    IF params = <<>> THEN cd
    ELSE LET r == GetLocalLayerParameterInfo(ParentMaterialLayers, Head(params).ParameterInfo,
                                             LocalMaterialLayers)
         IN AddLayerFonts(IF r.ret
                          THEN AddFontOverride(cd, r.info, Head(params).FontValue,
                                               Head(params).FontPage)
                          ELSE cd,
                          Tail(params), ParentMaterialLayers, LocalMaterialLayers)

\* FMaterialCachedParameters_UpdateForLayerParameters on the scalar and font
\* values of the parent instance.
UpdateForLayerParameters(cd, ParentMaterialInstance, LayerParameters) ==
    LET ParentMaterialLayers ==
            FindParentMaterialLayers(ParentMaterialInstance.MaterialLayersParameters,
                                     LayerParameters.ParameterInfo)
    IN IF ParentMaterialLayers.bFound
       THEN AddLayerFonts(AddLayerScalars(cd, ParentMaterialInstance.ScalarParameterValues,
                                          ParentMaterialLayers, LayerParameters.Value),
                          ParentMaterialInstance.FontParameterValues,
                          ParentMaterialLayers, LayerParameters.Value)
       ELSE cd

\* Whether every check(LocalLayerIndex > 0) the call evaluates holds.
LayerChecksHold(ParentMaterialInstance, LayerParameters) ==
    LET ParentMaterialLayers ==
            FindParentMaterialLayers(ParentMaterialInstance.MaterialLayersParameters,
                                     LayerParameters.ParameterInfo)
        AllParams == ParentMaterialInstance.ScalarParameterValues
                       \o ParentMaterialInstance.FontParameterValues
    IN ParentMaterialLayers.bFound =>
          \A k \in 1..Len(AllParams) :
              GetLocalLayerParameterInfo(ParentMaterialLayers, AllParams[k].ParameterInfo,
                                         LayerParameters.Value).bCheck

NoCacheCall ==
    [op |-> "None", Function |-> NoFunction, Association |-> GlobalParameter,
     ParameterIndex |-> -1, ScalarParameterValues |-> <<>>, FontParameterValues |-> <<>>]

\* The parent instance of the model with the given value lists.
ParentInstance(ScalarParameterValues, FontParameterValues) ==
    [MaterialLayersParameters |-> LayerSetup.MaterialLayersParameters,
     ScalarParameterValues |-> ScalarParameterValues,
     FontParameterValues |-> FontParameterValues]

\* A call of FMaterialCachedParameters_UpdateForLayerParameters; a failed
\* check stops the editor, so the call is taken only where the checks hold.
UpdateForLayerParametersCall(ScalarParameterValues, FontParameterValues) ==
    LET Parent == ParentInstance(ScalarParameterValues, FontParameterValues)
        cd == UpdateForLayerParameters(Cached, Parent, LayerSetup.LayerParameters)
    IN /\ LayerChecksHold(Parent, LayerSetup.LayerParameters)
       /\ Len(cd.Entry.NameHashes) <= MaxParams
       /\ Len(cd.FontEntry.NameHashes) <= MaxParams
       /\ Cached' = cd
       /\ lastFind' = NoFind
       /\ cacheCall' = [NoCacheCall EXCEPT !.op = "UpdateForLayerParameters",
                                           !.ScalarParameterValues = ScalarParameterValues,
                                           !.FontParameterValues = FontParameterValues]
       /\ UNCHANGED <<NameHash, LayerSetup>>
       /\ UNCHANGED <<cameraVars, traceVars, toolVars, editorVars>>
       /\ UNCHANGED <<threadVars, moduleVars, sequenceVars, loopVars>>

\* A call of UpdateForFunction.
UpdateForFunctionCall(Function, Association, ParameterIndex) ==
    LET cd == UpdateForFunction(Cached, Function, Association, ParameterIndex) IN
    /\ Len(cd.Walks) <= MaxWalks
    /\ Len(cd.Entry.NameHashes) <= MaxParams
    /\ Len(cd.FontEntry.NameHashes) <= MaxParams
    /\ Cached' = cd
    /\ lastFind' = NoFind
    /\ cacheCall' = [NoCacheCall EXCEPT !.op = "UpdateForFunction",
                                        !.Function = Function,
                                        !.Association = Association,
                                        !.ParameterIndex = ParameterIndex]
    /\ UNCHANGED <<NameHash, LayerSetup>>
    /\ UNCHANGED <<cameraVars, traceVars, toolVars, editorVars>>
    /\ UNCHANGED <<threadVars, moduleVars, sequenceVars, loopVars>>

\* A call of UpdateForExpressions on a material's own expression list.
UpdateForExpressionsCall(Expressions) ==
    LET cd == UpdateForExpressions(Cached, TRUE, Expressions, GlobalParameter, -1) IN
    /\ Len(cd.Walks) <= MaxWalks
    /\ Len(cd.Entry.NameHashes) <= MaxParams
    /\ Len(cd.FontEntry.NameHashes) <= MaxParams
    /\ Cached' = cd
    /\ lastFind' = NoFind
    /\ cacheCall' = [NoCacheCall EXCEPT !.op = "UpdateForExpressions"]
    /\ UNCHANGED <<NameHash, LayerSetup>>
    /\ UNCHANGED <<cameraVars, traceVars, toolVars, editorVars>>
    /\ UNCHANGED <<threadVars, moduleVars, sequenceVars, loopVars>>

\* FMaterialCachedExpressionData::Reset between two updates.
ResetCall ==
    /\ Cached' = ResetData
    /\ lastFind' = NoFind
    /\ cacheCall' = [NoCacheCall EXCEPT !.op = "Reset"]
    /\ UNCHANGED <<NameHash, LayerSetup>>
    /\ UNCHANGED <<cameraVars, traceVars, toolVars, editorVars>>
    /\ UNCHANGED <<threadVars, moduleVars, sequenceVars, loopVars>>

\* The layers of the model: the parent holds MaxLayers layers with distinct
\* identifiers; a local layer is parented to one of them or to none (0).
ParentLayerGuidLists == {[i \in 1..MaxLayers |-> i]}
LocalParentGuidLists == UNION {[1..n -> 0..MaxLayers] : n \in 1..MaxLayers}
LayersParameterNames == {"Layers", "OtherLayers"}

MkLayerSetup(MaterialLayersParameters, ParentLayerGuids) ==
    [MaterialLayersParameters |-> MaterialLayersParameters,
     LayerParameters |-> [ParameterInfo |-> "Layers",
                          Value |-> [ParentLayerGuids |-> ParentLayerGuids]]]

CacheInit ==
    /\ \E LayerGuids \in ParentLayerGuidLists, ParentLayerGuids \in LocalParentGuidLists :
          \E MaterialLayersParameters \in
                {<<>>} \cup {<<[ParameterInfo |-> n, Value |-> [LayerGuids |-> LayerGuids]]>> :
                               n \in LayersParameterNames} :
             LayerSetup = MkLayerSetup(MaterialLayersParameters, ParentLayerGuids)
    /\ cacheCall = NoCacheCall

\* One setup: the parent's layers are found and the local layers are
\* parented to them in reverse order.
CacheFixed ==
    /\ LayerSetup = MkLayerSetup(
                       <<[ParameterInfo |-> "Layers",
                          Value |-> [LayerGuids |-> [i \in 1..MaxLayers |-> i]]]>>,
                       [i \in 1..MaxLayers |-> MaxLayers + 1 - i])
    /\ cacheCall = NoCacheCall

CacheIdle ==
    /\ LayerSetup = MkLayerSetup(<<>>, <<0>>)
    /\ cacheCall = NoCacheCall

\* The expressions a material graph is built from in the model.
ExpressionUniverse ==
    {TextureSampleExpr("Tex1"), TextureSampleExpr(NoTexture),
     CollectionParameterExpr("Coll"), CollectionParameterExpr(NoCollection),
     GrassOutputExpr(<<"Grass1", "Grass2", "Grass1">>),
     ScalarParameterExpr("N2", 1, 1),
     FunctionCallExpr("Caller"), FunctionCallExpr("Instance"), FunctionCallExpr(NoFunction),
     LayersExpr(<<"Leaf", "Leaf">>, <<"Leaf">>)}

ExpressionLists == UNION {[1..n -> ExpressionUniverse] : n \in 0..MaxExprs}

\* A traversal of a material's expression list (global association).
UpdateMaterial(Expressions) ==
    LET cd == UpdateForExpressions(Cached, TRUE, Expressions, GlobalParameter, -1) IN
    /\ Len(cd.FunctionInfos) <= MaxFunctionInfos
    /\ Cached' = cd
    /\ lastFind' = NoFind
    /\ UNCHANGED <<NameHash, Sections, bCanBlend, PlayEnd, TickResolution, lastCall,
                   FrameChannelEnabled, LastFrameCycle, Records, NumFrameCalls>>
    /\ UNCHANGED laterVars

\* FMaterialCachedExpressionData::Reset
Reset ==
    /\ Cached' = ResetData
    /\ lastFind' = NoFind
    /\ UNCHANGED <<NameHash, Sections, bCanBlend, PlayEnd, TickResolution, lastCall,
                   FrameChannelEnabled, LastFrameCycle, Records, NumFrameCalls>>
    /\ UNCHANGED laterVars

InsertOverride(info, value) ==
    /\ Len(AddScalarOverride(Cached, info, value).Entry.NameHashes) <= MaxParams
    /\ Cached' = AddScalarOverride(Cached, info, value)
    /\ lastFind' = NoFind
    /\ UNCHANGED <<NameHash, Sections, bCanBlend, PlayEnd, TickResolution, lastCall,
                   FrameChannelEnabled, LastFrameCycle, Records, NumFrameCalls>>
    /\ UNCHANGED laterVars

InsertExpression(info, guid, value) ==
    /\ Len(AddScalarExpression(Cached, info, guid, value).Entry.NameHashes) <= MaxParams
    /\ Cached' = AddScalarExpression(Cached, info, guid, value)
    /\ lastFind' = NoFind
    /\ UNCHANGED <<NameHash, Sections, bCanBlend, PlayEnd, TickResolution, lastCall,
                   FrameChannelEnabled, LastFrameCycle, Records, NumFrameCalls>>
    /\ UNCHANGED laterVars

LookupParameter(info) ==
    /\ lastFind' = [info |-> info, asked |-> TRUE,
                    index |-> FindParameterIndex(Cached.Entry, NameHash[info.Name], info)]
    /\ UNCHANGED <<Cached, NameHash, Sections, bCanBlend, PlayEnd, TickResolution, lastCall,
                   FrameChannelEnabled, LastFrameCycle, Records, NumFrameCalls>>
    /\ UNCHANGED laterVars

MaterialInit ==
    /\ Cached = ResetData
    /\ lastFind = NoFind


(***************************************************************************)
(* Frame trace records                                                     *)
(***************************************************************************)
\* A uint64 is kept at full width as ten little-endian groups: nine groups
\* of 7 bits and the top group of 1 bit (9 * 7 + 1 = 64).
NumGroups == 10
GroupBase(i) == IF i = NumGroups THEN 2 ELSE 128

U64(groups) == [i \in 1..NumGroups |-> IF i <= Len(groups) THEN groups[i] ELSE 0]
Zero64 == U64(<<>>)
TwoTo63 == [i \in 1..NumGroups |-> IF i = NumGroups THEN 1 ELSE 0]
Max64 == [i \in 1..NumGroups |-> IF i = NumGroups THEN 1 ELSE 127]

\* a - b modulo 2^64 (uint64 subtraction).
RECURSIVE SubGroups(_, _, _, _)
SubGroups(a, b, i, borrow) ==
    IF i > NumGroups THEN <<>>
    ELSE LET d == a[i] - b[i] - borrow IN
         <<(d + GroupBase(i)) % GroupBase(i)>> \o SubGroups(a, b, i + 1, IF d < 0 THEN 1 ELSE 0)

Sub64(a, b) == SubGroups(a, b, 1, 0)

AllZero(groups) == \A i \in 1..Len(groups) : groups[i] = 0

\* FTraceUtils::Encode7bit: 7 bits per byte, least significant first, bit 7
\* set on every byte but the last.
RECURSIVE Encode7bit(_)
Encode7bit(Value) ==
    IF AllZero(Tail(Value)) THEN <<Head(Value)>>
    ELSE <<Head(Value) + 128>> \o Encode7bit(Tail(Value))

\* The reader's side: 7-bit groups up to the first byte without bit 7.
RECURSIVE DecodeGroups(_)
DecodeGroups(bytes) ==
    IF bytes = <<>> THEN <<>>
    ELSE IF Head(bytes) < 128 THEN <<Head(bytes)>>
    ELSE <<Head(bytes) - 128>> \o DecodeGroups(Tail(bytes))

Decode7bit(bytes) ==
    LET g == DecodeGroups(bytes) IN
    [i \in 1..NumGroups |-> IF i <= Len(g) THEN g[i] % GroupBase(i) ELSE 0]

TraceFrameType_Game == "Game"
TraceFrameType_Rendering == "Rendering"
FrameTypes == {TraceFrameType_Game, TraceFrameType_Rendering}

\* uint8 Buffer[9]
BufferBytes == 9

\* What a byte stored past the end of Buffer may read back as: the byte
\* written, or whatever else occupies that stack slot when it is attached.
StrayBytes == {0, 1, 255}

\* The bytes attached to the record: the encoding itself when it fits the
\* buffer; otherwise the bytes past the buffer are not determined.
AttachedBytes(encoded, stray) ==
    [i \in 1..Len(encoded) |-> IF i <= BufferBytes THEN encoded[i] ELSE stray]

\* Variant that stores the cycle before looking at the channel.
UpdatedLastFrameCycle_Always(enabled, last, FrameType, Cycle) ==
    [last EXCEPT ![FrameType] = Cycle]

\* The value of LastFrameCycle after a call that read `Cycle`: the early
\* return of a disabled channel leaves it alone.
UpdatedLastFrameCycle(enabled, last, FrameType, Cycle) ==
    IF enabled THEN [last EXCEPT ![FrameType] = Cycle] ELSE last

\* Common body of OutputBeginFrame and OutputEndFrame; `Cycle` is the value
\* read from FPlatformTime::Cycles64().
OutputFrame(GameEvent, RenderEvent, FrameType, Cycle, stray) ==
    LET CycleDiff == Sub64(Cycle, LastFrameCycle[FrameType])
        Buffer == Encode7bit(CycleDiff)
    IN
    /\ NumFrameCalls < MaxFrameCalls
    /\ NumFrameCalls' = NumFrameCalls + 1
    /\ LastFrameCycle' = UpdatedLastFrameCycle(FrameChannelEnabled, LastFrameCycle,
                                               FrameType, Cycle)
    /\ Records' = IF FrameChannelEnabled
                  THEN Append(Records,
                              [event |-> IF FrameType = TraceFrameType_Game
                                         THEN GameEvent ELSE RenderEvent,
                               type |-> FrameType,
                               cycle |-> Cycle,
                               attachment |-> AttachedBytes(Buffer, stray)])
                  ELSE Records
    /\ UNCHANGED FrameChannelEnabled
    /\ UNCHANGED <<Sections, bCanBlend, PlayEnd, TickResolution, lastCall,
                   NameHash, Cached, lastFind>>
    /\ UNCHANGED laterVars

OutputBeginFrame(FrameType, Cycle, stray) ==
    OutputFrame("BeginGameFrame", "BeginRenderFrame", FrameType, Cycle, stray)

OutputEndFrame(FrameType, Cycle, stray) ==
    OutputFrame("EndGameFrame", "EndRenderFrame", FrameType, Cycle, stray)

\* The frame channel is switched on or off from outside.
ToggleFrameChannel ==
    /\ FrameChannelEnabled' = ~FrameChannelEnabled
    /\ UNCHANGED <<LastFrameCycle, Records, NumFrameCalls>>
    /\ UNCHANGED <<Sections, bCanBlend, PlayEnd, TickResolution, lastCall,
                   NameHash, Cached, lastFind>>
    /\ UNCHANGED laterVars

TraceInit ==
    /\ FrameChannelEnabled = FALSE
    /\ LastFrameCycle = [t \in FrameTypes |-> Zero64]
    /\ Records = <<>>
    /\ NumFrameCalls = 0

(***************************************************************************)
(* Interactive tool manager                                                *)
(***************************************************************************)
\* EToolSide: Left (also Mouse) and Right.
ToolSide_Left == "Left"
ToolSide_Right == "Right"
ToolSides == {ToolSide_Left, ToolSide_Right}

\* EToolChangeTrackingMode
NoChangeTracking == "NoChangeTracking"
UndoToExit == "UndoToExit"
FullUndoRedo == "FullUndoRedo"
ChangeTrackingModes == {NoChangeTracking, UndoToExit, FullUndoRedo}

\* EToolShutdownType
ShutdownType_Accept == "Accept"
ShutdownType_Cancel == "Cancel"
ShutdownTypes == {ShutdownType_Accept, ShutdownType_Cancel}

\* Identifiers tool builders are registered under.
ToolIdentifiers == {"ToolA", "ToolB"}
NoBuilder == ""
NoTool == ""

\* Variant of the record below that is an activation record, redone by
\* activating again.
BeginToolChange_Reactivates(Side) ==
    [kind |-> "ActivateTool", Side |-> Side, ToolType |-> NoTool, bIsDeactivate |-> FALSE,
     ShutdownType |-> ShutdownType_Cancel]

\* FBeginToolChange; the side is that of the tool the record was emitted for.
BeginToolChange(Side) ==
    [kind |-> "BeginTool", Side |-> Side, ToolType |-> NoTool, bIsDeactivate |-> FALSE,
     ShutdownType |-> ShutdownType_Cancel]

\* FActivateToolChange(SideIn, ToolTypeIn): the activating mode.
ActivateToolChange(SideIn, ToolTypeIn) ==
    [kind |-> "ActivateTool", Side |-> SideIn, ToolType |-> ToolTypeIn, bIsDeactivate |-> FALSE,
     ShutdownType |-> ShutdownType_Cancel]

\* Variant of the constructor below that leaves bIsDeactivate false.
DeactivateToolChange_NotDeactivate(SideIn, ToolTypeIn, ShutdownTypeIn) ==
    [kind |-> "ActivateTool", Side |-> SideIn, ToolType |-> ToolTypeIn, bIsDeactivate |-> FALSE,
     ShutdownType |-> ShutdownTypeIn]

\* FActivateToolChange(SideIn, ToolTypeIn, ShutdownTypeIn): the deactivating mode.
DeactivateToolChange(SideIn, ToolTypeIn, ShutdownTypeIn) ==
    [kind |-> "ActivateTool", Side |-> SideIn, ToolType |-> ToolTypeIn, bIsDeactivate |-> TRUE,
     ShutdownType |-> ShutdownTypeIn]

\* The manager's tool state: selected builder and active tool of each side,
\* and the notifications fired so far in the running operation.
MkToolState(builders, tools, events) ==
    [ActiveBuilder |-> builders, ActiveTool |-> tools, events |-> events]

ToolStarted(Side, Tool) == [event |-> "OnToolStarted", Side |-> Side, Tool |-> Tool,
                            ShutdownType |-> ""]
ToolEnded(Side, Tool, ShutdownType) ==
    [event |-> "OnToolEnded", Side |-> Side, Tool |-> Tool, ShutdownType |-> ShutdownType]

HasActiveToolIn(st, Side) == st.ActiveTool[Side] # NoTool
HasActiveTool(Side) == ActiveTool[Side] # NoTool
HasAnyActiveTool == \E Side \in ToolSides : HasActiveTool(Side)

\* SelectActiveToolType on a tool state: the builder is looked up by identifier.
SelectedToolType(st, Side, Identifier) ==
    IF Identifier \in ToolBuilders
    THEN [st EXCEPT !.ActiveBuilder[Side] = Identifier]
    ELSE st

\* The tool is built by the side's selected builder, becomes the side's
\* active tool and the tool-started notification is fired.
ActivateToolInternal(st, Side) ==
    IF st.ActiveBuilder[Side] = NoBuilder THEN st
    ELSE [st EXCEPT !.ActiveTool[Side] = st.ActiveBuilder[Side],
                    !.events = Append(@, ToolStarted(Side, st.ActiveBuilder[Side]))]

\* The tool is shut down with the given disposition, the side's active tool
\* and active builder are cleared and the tool-ended notification is fired.
DeactivateToolInternal(st, Side, ShutdownType) ==
    IF ~HasActiveToolIn(st, Side) THEN st
    ELSE [st EXCEPT !.ActiveTool[Side] = NoTool,
                    !.ActiveBuilder[Side] = NoBuilder,
                    !.events = Append(@, ToolEnded(Side, st.ActiveTool[Side], ShutdownType))]

\* Apply (redo) of one change record.
ApplyChange(st, ch) ==
    IF ch.kind = "BeginTool" THEN st
    ELSE IF ch.bIsDeactivate THEN DeactivateToolInternal(st, ch.Side, ch.ShutdownType)
    ELSE ActivateToolInternal(SelectedToolType(st, ch.Side, ch.ToolType), ch.Side)

\* Revert (undo) of one change record.
RevertChange(st, ch) ==
    IF ch.kind = "BeginTool"
    THEN DeactivateToolInternal(st, ch.Side, ShutdownType_Cancel)
    ELSE IF ch.bIsDeactivate
    THEN ActivateToolInternal(SelectedToolType(st, ch.Side, ch.ToolType), ch.Side)
    ELSE DeactivateToolInternal(st, ch.Side, ShutdownType_Cancel)

\* A transaction is redone by applying its records in order and undone by
\* reverting them in reverse order.
RECURSIVE ApplyAll(_, _)
ApplyAll(st, changes) ==
    IF changes = <<>> THEN st ELSE ApplyAll(ApplyChange(st, Head(changes)), Tail(changes))

RECURSIVE RevertAll(_, _)
RevertAll(st, changes) ==
    IF changes = <<>> THEN st
    ELSE RevertAll(RevertChange(st, changes[Len(changes)]), SubSeq(changes, 1, Len(changes) - 1))

\* The undo history keeps the last MaxUndoDepth transactions.
PushTransaction(stack, changes) ==
    IF changes = <<>> THEN stack
    ELSE LET all == Append(stack, changes) IN
         IF Len(all) > MaxUndoDepth THEN Tail(all) ELSE all

\* The change records a successful activation emits, by tracking mode.
ActivationRecords(mode, Side, ToolType) ==
    IF mode = FullUndoRedo THEN <<ActivateToolChange(Side, ToolType)>>
    ELSE IF mode = UndoToExit THEN <<BeginToolChange(Side)>>
    ELSE <<>>

\* The change records a deactivation emits, by tracking mode.
DeactivationRecords(mode, Side, ToolType, ShutdownType) ==
    IF mode = FullUndoRedo THEN <<DeactivateToolChange(Side, ToolType, ShutdownType)>>
    ELSE <<>>

CurrentToolState == MkToolState(ActiveBuilder, ActiveTool, <<>>)

NoToolCall == [op |-> "None", Side |-> ToolSide_Left, ret |-> FALSE, events |-> <<>>,
               changes |-> <<>>, hadTool |-> NoTool]

\* Variant of the test below that does not ask the builder.
CanActivateSelected_NoQuery(Side) == ActiveBuilder[Side] # NoBuilder

\* ActivateTool needs a selected builder that reports it can build.
CanActivateSelected(Side) ==
    ActiveBuilder[Side] # NoBuilder /\ CanBuild[ActiveBuilder[Side]]

RegisterToolType(Identifier) ==
    /\ Identifier \notin ToolBuilders
    /\ ToolBuilders' = ToolBuilders \cup {Identifier}
    /\ toolCall' = [NoToolCall EXCEPT !.op = "RegisterToolType"]
    /\ UNCHANGED <<ActiveBuilder, ActiveTool, CanBuild, ActiveToolChangeTrackingMode,
                   UndoStack, RedoStack>>
    /\ UNCHANGED <<cameraVars, materialVars, traceVars, moreVars, editorVars>>

SelectActiveToolType(Side, Identifier) ==
    /\ ActiveBuilder' = SelectedToolType(CurrentToolState, Side, Identifier).ActiveBuilder
    /\ toolCall' = [NoToolCall EXCEPT !.op = "SelectActiveToolType", !.Side = Side,
                                      !.ret = (Identifier \in ToolBuilders)]
    /\ UNCHANGED <<ToolBuilders, ActiveTool, CanBuild, ActiveToolChangeTrackingMode,
                   UndoStack, RedoStack>>
    /\ UNCHANGED <<cameraVars, materialVars, traceVars, moreVars, editorVars>>

\* ActivateTool: an existing tool of the side is shut down first (Accept),
\* the new tool is built by the selected builder; the records of both are
\* emitted inside one transaction.
ActivateTool(Side) ==
    LET Builder == ActiveBuilder[Side]
        ok == CanActivateSelected(Side)
        st1 == DeactivateToolInternal(CurrentToolState, Side, ShutdownType_Accept)
        st2 == ActivateToolInternal([st1 EXCEPT !.ActiveBuilder[Side] = Builder], Side)
        changes ==
            (IF HasActiveTool(Side)
             THEN DeactivationRecords(ActiveToolChangeTrackingMode, Side, ActiveTool[Side],
                                      ShutdownType_Accept)
             ELSE <<>>)
            \o ActivationRecords(ActiveToolChangeTrackingMode, Side, Builder)
    IN
    /\ ActiveBuilder' = IF ok THEN st2.ActiveBuilder ELSE ActiveBuilder
    /\ ActiveTool' = IF ok THEN st2.ActiveTool ELSE ActiveTool
    /\ UndoStack' = IF ok THEN PushTransaction(UndoStack, changes) ELSE UndoStack
    /\ RedoStack' = IF ok /\ changes # <<>> THEN <<>> ELSE RedoStack
    /\ toolCall' = [NoToolCall EXCEPT !.op = "ActivateTool", !.Side = Side, !.ret = ok,
                                      !.events = IF ok THEN st2.events ELSE <<>>,
                                      !.changes = IF ok THEN changes ELSE <<>>,
                                      !.hadTool = ActiveTool[Side]]
    /\ UNCHANGED <<ToolBuilders, CanBuild, ActiveToolChangeTrackingMode>>
    /\ UNCHANGED <<cameraVars, materialVars, traceVars, moreVars, editorVars>>

\* DeactivateTool: requires an active tool on the side.
DeactivateTool(Side, ShutdownType) ==
    LET st == DeactivateToolInternal(CurrentToolState, Side, ShutdownType)
        changes == IF HasActiveTool(Side)
                   THEN DeactivationRecords(ActiveToolChangeTrackingMode, Side,
                                            ActiveTool[Side], ShutdownType)
                   ELSE <<>>
    IN
    /\ ActiveBuilder' = st.ActiveBuilder
    /\ ActiveTool' = st.ActiveTool
    /\ UndoStack' = PushTransaction(UndoStack, changes)
    /\ RedoStack' = IF changes # <<>> THEN <<>> ELSE RedoStack
    /\ toolCall' = [NoToolCall EXCEPT !.op = "DeactivateTool", !.Side = Side,
                                      !.ret = HasActiveTool(Side),
                                      !.events = st.events, !.changes = changes,
                                      !.hadTool = ActiveTool[Side]]
    /\ UNCHANGED <<ToolBuilders, CanBuild, ActiveToolChangeTrackingMode>>
    /\ UNCHANGED <<cameraVars, materialVars, traceVars, moreVars, editorVars>>

\* The host undoes the last transaction of its history.
UndoTransaction ==
    LET changes == UndoStack[Len(UndoStack)]
        st == RevertAll(CurrentToolState, changes)
    IN
    /\ UndoStack # <<>>
    /\ ActiveBuilder' = st.ActiveBuilder
    /\ ActiveTool' = st.ActiveTool
    /\ UndoStack' = SubSeq(UndoStack, 1, Len(UndoStack) - 1)
    /\ RedoStack' = <<changes>> \o RedoStack
    /\ toolCall' = [NoToolCall EXCEPT !.op = "Undo", !.events = st.events,
                                      !.changes = changes]
    /\ UNCHANGED <<ToolBuilders, CanBuild, ActiveToolChangeTrackingMode>>
    /\ UNCHANGED <<cameraVars, materialVars, traceVars, moreVars, editorVars>>

\* The host redoes the transaction undone last.
RedoTransaction ==
    LET changes == Head(RedoStack)
        st == ApplyAll(CurrentToolState, changes)
    IN
    /\ RedoStack # <<>>
    /\ ActiveBuilder' = st.ActiveBuilder
    /\ ActiveTool' = st.ActiveTool
    /\ UndoStack' = Append(UndoStack, changes)
    /\ RedoStack' = Tail(RedoStack)
    /\ toolCall' = [NoToolCall EXCEPT !.op = "Redo", !.events = st.events,
                                      !.changes = changes]
    /\ UNCHANGED <<ToolBuilders, CanBuild, ActiveToolChangeTrackingMode>>
    /\ UNCHANGED <<cameraVars, materialVars, traceVars, moreVars, editorVars>>

\* The selection state changes what a builder's CanBuildTool answers.
SelectionChanged(Identifier) ==
    /\ CanBuild' = [CanBuild EXCEPT ![Identifier] = ~@]
    /\ toolCall' = [NoToolCall EXCEPT !.op = "SelectionChanged"]
    /\ UNCHANGED <<ToolBuilders, ActiveBuilder, ActiveTool, ActiveToolChangeTrackingMode,
                   UndoStack, RedoStack>>
    /\ UNCHANGED <<cameraVars, materialVars, traceVars, moreVars, editorVars>>

\* The manager as constructed; the tracking mode is configured once.
ToolManagerInit ==
    /\ ToolBuilders = {}
    /\ ActiveBuilder = [Side \in ToolSides |-> NoBuilder]
    /\ ActiveTool = [Side \in ToolSides |-> NoTool]
    /\ CanBuild \in [ToolIdentifiers -> BOOLEAN]
    /\ ActiveToolChangeTrackingMode \in ChangeTrackingModes
    /\ UndoStack = <<>>
    /\ RedoStack = <<>>
    /\ toolCall = NoToolCall

\* The tool manager with nothing registered, in one fixed configuration.
ToolManagerIdle ==
    /\ ToolBuilders = {}
    /\ ActiveBuilder = [Side \in ToolSides |-> NoBuilder]
    /\ ActiveTool = [Side \in ToolSides |-> NoTool]
    /\ CanBuild = [Identifier \in ToolIdentifiers |-> TRUE]
    /\ ActiveToolChangeTrackingMode = UndoToExit
    /\ UndoStack = <<>>
    /\ RedoStack = <<>>
    /\ toolCall = NoToolCall

(***************************************************************************)
(* Animation timeline: the append-frames dialog                            *)
(***************************************************************************)

\* Longest text entered in the dialog.
MaxTextLen == 4

\* The characters a text is made of: digits, a sign and a letter.
TextChars == {"0", "1", "5", "9", "-", "a"}
DigitChars == {"0", "1", "2", "3", "4", "5", "6", "7", "8", "9"}
DigitValue(ch) ==
    CASE ch = "0" -> 0 [] ch = "1" -> 1 [] ch = "2" -> 2 [] ch = "3" -> 3 [] ch = "4" -> 4
      [] ch = "5" -> 5 [] ch = "6" -> 6 [] ch = "7" -> 7 [] ch = "8" -> 8 [] OTHER -> 9
Texts == UNION {[1..n -> TextChars] : n \in 0..MaxTextLen}

\* ETextCommit::Type
ETextCommit_Default == "Default"
ETextCommit_OnEnter == "OnEnter"
ETextCommit_OnUserMovedFocus == "OnUserMovedFocus"
ETextCommit_OnCleared == "OnCleared"
ETextCommitTypes ==
    {ETextCommit_Default, ETextCommit_OnEnter, ETextCommit_OnUserMovedFocus, ETextCommit_OnCleared}

\* const static int32 MaxFrame
MaxFrame == 1000

\* Index of the first character of text at or after i that is not a space.
RECURSIVE SkipSpaces(_, _)
SkipSpaces(text, i) ==
    IF i <= Len(text) /\ text[i] = " " THEN SkipSpaces(text, i + 1) ELSE i

\* Value of the run of decimal digits of text starting at i, continuing acc.
RECURSIVE AccumulateDigits(_, _, _)
AccumulateDigits(text, i, acc) ==
    IF i > Len(text) \/ text[i] \notin DigitChars THEN acc
    ELSE AccumulateDigits(text, i + 1, acc * 10 + DigitValue(text[i]))

\* FCString::Atoi: the C conversion, which skips leading spaces, takes an
\* optional sign and then the decimal digits up to the first other
\* character; 0 when there are no digits there.
Atoi(text) ==
    LET i == SkipSpaces(text, 1)
        j == IF i <= Len(text) /\ text[i] \in {"-", "+"} THEN i + 1 ELSE i
        v == AccumulateDigits(text, j, 0)
    IN IF i <= Len(text) /\ text[i] = "-" THEN 0 - v ELSE v

NoAppendCall ==
    [op |-> "none", text |-> <<>>, CommitInfo |-> ETextCommit_Default, bBegin |-> FALSE,
     appended |-> FALSE, bFromBegin |-> FALSE, NumFrames |-> 0, dismissed |-> FALSE]

\* The popup of OnShowPopupOfAppendAnimation with a text about to be committed.
PendingCommit(InNewGroupText, CommitInfo, bBegin) ==
    [NoAppendCall EXCEPT !.op = "OnTextCommitted", !.text = InNewGroupText,
                         !.CommitInfo = CommitInfo, !.bBegin = bBegin]

\* SAnimTimeline::OnSequenceAppendedCalled, for the commit the popup delivers.
OnSequenceAppendedCalled(InNewGroupText, CommitInfo, bBegin) ==
    LET NumFrames == Atoi(InNewGroupText)
        ok == CommitInfo = ETextCommit_OnEnter /\ NumFrames > 0 /\ NumFrames < MaxFrame
    IN /\ appendCall = PendingCommit(InNewGroupText, CommitInfo, bBegin)
       /\ appendCall' =
            [op |-> "OnSequenceAppendedCalled", text |-> InNewGroupText,
             CommitInfo |-> CommitInfo, bBegin |-> bBegin,
             appended |-> ok, bFromBegin |-> ok /\ bBegin,
             NumFrames |-> IF ok THEN NumFrames ELSE 0, dismissed |-> ok]
       /\ UNCHANGED <<cameraVars, materialVars, traceVars, moreVars, toolVars>>
       /\ UNCHANGED <<gridVars, pinVars, blutilityVars, dataTableVars, octreeVars>>

\* The popup open with any text and any kind of commit pending.
AppendInit ==
    \E text \in Texts, CommitInfo \in ETextCommitTypes, bBegin \in BOOLEAN :
        appendCall = PendingCommit(text, CommitInfo, bBegin)

AppendIdle == appendCall = NoAppendCall

(***************************************************************************)
(* Animation timeline: grid spacing                                        *)
(***************************************************************************)

\* Largest numerator of a frame rate, and the largest power of two of
\* quarter pixels per second.
MaxFPS == 30
MaxPixelExp == 10

\* PixelsPerSecond is counted in quarter pixels, all exact as floats.
PixelUnit == 4
DisplayRates == {[Numerator |-> n, Denominator |-> d] : n \in 1..MaxFPS, d \in {1, 2}}
PixelsPerSecondValues == {2 ^ k : k \in 0..MaxPixelExp}
TickPxValues == {1, 15, 60}

\* Smallest integer not below a / b, for a >= 0 and b > 0 (FMath::CeilToInt of the quotient).
CeilToIntOfQuotient(a, b) == (a + b - 1) \div b

\* FMath::RoundToInt(InFrameRate.AsDecimal()): floor of the value plus one half.
RoundedFPSOf(InFrameRate) ==
    (2 * InFrameRate.Numerator + InFrameRate.Denominator) \div (2 * InFrameRate.Denominator)

\* One pass of the loop body after CommonBases.Add: the next LowestBase, or
\* the same value where the loop breaks.
NextLowestBase(LowestBase) ==
    IF LowestBase % 2 = 0 THEN LowestBase \div 2
    ELSE IF LowestBase % 3 = 0 THEN LowestBase \div 3
    ELSE IF LowestBase % 5 = 0 THEN LowestBase \div 5
    ELSE LET Take(LowestResult, Denominator) ==
                 LET Result == LowestBase \div Denominator
                 IN IF Result > 0 /\ Result < LowestResult THEN Result ELSE LowestResult
         IN Take(Take(Take(LowestBase, 2), 3), 5)

\* The bases in the order the loop adds them.
RECURSIVE CollectBases(_)
CollectBases(LowestBase) ==
    <<LowestBase>> \o
        (IF NextLowestBase(LowestBase) < LowestBase
         THEN CollectBases(NextLowestBase(LowestBase)) ELSE <<>>)

\* Variant of the reversal below that leaves the array as it is.
ReverseBases_Not(Array) == Array

\* Algo::Reverse
ReverseBases(Array) == [i \in 1..Len(Array) |-> Array[Len(Array) + 1 - i]]

\* CommonBases after the reversal.
CommonBasesOf(RoundedFPS) == ReverseBases(CollectBases(RoundedFPS))

\* Algo::LowerBound on the ascending array: the 0-based index of the first
\* element not below Value.
GridLowerBound(Array, Value) == Cardinality({i \in 1..Len(Array) : Array[i] < Value})

\* Scale: CeilToInt(DesiredMajorTickPx / PixelsPerSecond * InFrameRate.AsDecimal())
GridScale(InFrameRate, PixelsPerSecond, DesiredMajorTickPx) ==
    CeilToIntOfQuotient(DesiredMajorTickPx * PixelUnit * InFrameRate.Numerator,
                        PixelsPerSecond * InFrameRate.Denominator)

\* Variant of the test below that takes every smaller base as a divisor.
IsDivision_AnyBase(Base, CommonBase) == TRUE

\* Base % CommonBases[DivIndex] == 0
IsDivision(Base, CommonBase) == Base % CommonBase = 0

\* OutMajorInterval / MinorDivisions * PixelsPerSecond >= MinTickPx, with
\* OutMajorInterval = MajorIntervalFrames * InFrameRate.AsInterval()
MinorTickFits(InFrameRate, PixelsPerSecond, MajorIntervalFrames, MinorDivisions, MinTickPx) ==
    MajorIntervalFrames * InFrameRate.Denominator * PixelsPerSecond
        >= MinTickPx * PixelUnit * InFrameRate.Numerator * MinorDivisions

\* The loop over DivIndex from DivIndex (0-based) up to BaseIndex.
RECURSIVE FindMinorDivisions(_, _, _, _, _, _, _)
FindMinorDivisions(InFrameRate, PixelsPerSecond, MinTickPx, CommonBases, BaseIndex, MajorIntervalFrames, DivIndex) ==
    IF DivIndex >= BaseIndex THEN MajorIntervalFrames
    ELSE LET MinorDivisions == MajorIntervalFrames \div CommonBases[DivIndex + 1]
         IN IF /\ IsDivision(CommonBases[BaseIndex + 1], CommonBases[DivIndex + 1])
               /\ MinorTickFits(InFrameRate, PixelsPerSecond, MajorIntervalFrames,
                                MinorDivisions, MinTickPx)
            THEN MinorDivisions
            ELSE FindMinorDivisions(InFrameRate, PixelsPerSecond, MinTickPx, CommonBases,
                                    BaseIndex, MajorIntervalFrames, DivIndex + 1)

\* ComputeGridSpacing: the major interval in frames, the minor divisions and
\* the value returned.
ComputeGridSpacing(InFrameRate, PixelsPerSecond, MinTickPx, DesiredMajorTickPx) ==
    LET RoundedFPS == RoundedFPSOf(InFrameRate)
        CommonBases == CommonBasesOf(RoundedFPS)
        Scale == GridScale(InFrameRate, PixelsPerSecond, DesiredMajorTickPx)
        Found == GridLowerBound(CommonBases, Scale)
        BaseIndex == IF Found < Len(CommonBases) - 1 THEN Found ELSE Len(CommonBases) - 1
        Base == CommonBases[BaseIndex + 1]
        MajorIntervalFrames == CeilToIntOfQuotient(Scale, Base) * Base
    IN [PixelsPerSecond |-> PixelsPerSecond,
        Scale |-> Scale,
        Base |-> Base,
        MajorIntervalFrames |-> MajorIntervalFrames,
        OutMinorDivisions |->
            FindMinorDivisions(InFrameRate, PixelsPerSecond, MinTickPx, CommonBases,
                               BaseIndex, MajorIntervalFrames, 0),
        ret |-> MajorIntervalFrames # 0]

\* The timeline's grid inputs other than the zoom, and its last two computations.
MkGrid(InFrameRate, MinTickPx, DesiredMajorTickPx) ==
    [InFrameRate |-> InFrameRate, MinTickPx |-> MinTickPx,
     DesiredMajorTickPx |-> DesiredMajorTickPx, calls |-> <<>>]

\* A call of ComputeGridSpacing at the given zoom.
ComputeGridSpacingCall(PixelsPerSecond) ==
    LET out == ComputeGridSpacing(gridCall.InFrameRate, PixelsPerSecond, gridCall.MinTickPx,
                                  gridCall.DesiredMajorTickPx)
    IN /\ RoundedFPSOf(gridCall.InFrameRate) >= 1
       /\ gridCall' = [gridCall EXCEPT !.calls =
                         IF Len(@) = 0 THEN <<out>> ELSE <<@[Len(@)], out>>]
       /\ UNCHANGED <<cameraVars, materialVars, traceVars, moreVars, toolVars>>
       /\ UNCHANGED <<appendVars, pinVars, blutilityVars, dataTableVars, octreeVars>>

GridInit ==
    \E InFrameRate \in DisplayRates, MinTickPx \in TickPxValues, DesiredMajorTickPx \in TickPxValues :
        gridCall = MkGrid(InFrameRate, MinTickPx, DesiredMajorTickPx)

GridIdle == gridCall = MkGrid([Numerator |-> 30, Denominator |-> 1], 15, 60)

(***************************************************************************)
(* Timeline node: default pins                                             *)
(***************************************************************************)

\* Most tracks of a template, over its four lists.
MaxTracks == 4

TrackNames == {"TrackA", "TrackB"}

EGPD_Input == "EGPD_Input"
EGPD_Output == "EGPD_Output"
PC_Exec == "exec"
PC_Float == "float"
PC_Byte == "byte"
PC_Struct == "struct"
NoSubCategoryObject == "none"
TimelineDirectionEnum == "ETimelineDirection"
VectorStruct == "Vector"
LinearColorStruct == "LinearColor"

PlayPinName == "Play"
PlayFromStartPinName == "PlayFromStart"
StopPinName == "Stop"
UpdatePinName == "Update"
ReversePinName == "Reverse"
ReverseFromEndPinName == "ReverseFromEnd"
FinishedPinName == "Finished"
NewTimePinName == "NewTime"
SetNewTimePinName == "SetNewTime"
DirectionPinName == "Direction"

\* UEdGraphNode::CreatePin: the pin that is added to the node's pins.
CreatePin(Dir, PinCategory, PinSubCategoryObject, PinName) ==
    [Direction |-> Dir, PinCategory |-> PinCategory,
     PinSubCategoryObject |-> PinSubCategoryObject, PinName |-> PinName]

\* The pins created for the tracks of one list, in the list's order.
TrackPins(Tracks, PinCategory, PinSubCategoryObject) ==
    [i \in 1..Len(Tracks) |-> CreatePin(EGPD_Output, PinCategory, PinSubCategoryObject, Tracks[i])]

\* Variant of the pins below without the set-new-time execution input.
FixedPins_NoSetNewTime ==
    << CreatePin(EGPD_Input, PC_Exec, NoSubCategoryObject, PlayPinName),
       CreatePin(EGPD_Input, PC_Exec, NoSubCategoryObject, PlayFromStartPinName),
       CreatePin(EGPD_Input, PC_Exec, NoSubCategoryObject, StopPinName),
       CreatePin(EGPD_Input, PC_Exec, NoSubCategoryObject, ReversePinName),
       CreatePin(EGPD_Input, PC_Exec, NoSubCategoryObject, ReverseFromEndPinName),
       CreatePin(EGPD_Output, PC_Exec, NoSubCategoryObject, UpdatePinName),
       CreatePin(EGPD_Output, PC_Exec, NoSubCategoryObject, FinishedPinName),
       CreatePin(EGPD_Input, PC_Float, NoSubCategoryObject, NewTimePinName),
       CreatePin(EGPD_Output, PC_Byte, TimelineDirectionEnum, DirectionPinName) >>

\* The pins created before the template is looked up.
FixedPins ==
    << CreatePin(EGPD_Input, PC_Exec, NoSubCategoryObject, PlayPinName),
       CreatePin(EGPD_Input, PC_Exec, NoSubCategoryObject, PlayFromStartPinName),
       CreatePin(EGPD_Input, PC_Exec, NoSubCategoryObject, StopPinName),
       CreatePin(EGPD_Input, PC_Exec, NoSubCategoryObject, ReversePinName),
       CreatePin(EGPD_Input, PC_Exec, NoSubCategoryObject, ReverseFromEndPinName),
       CreatePin(EGPD_Output, PC_Exec, NoSubCategoryObject, UpdatePinName),
       CreatePin(EGPD_Output, PC_Exec, NoSubCategoryObject, FinishedPinName),
       CreatePin(EGPD_Input, PC_Exec, NoSubCategoryObject, SetNewTimePinName),
       CreatePin(EGPD_Input, PC_Float, NoSubCategoryObject, NewTimePinName),
       CreatePin(EGPD_Output, PC_Byte, TimelineDirectionEnum, DirectionPinName) >>

\* The pins created inside if(Timeline), list by list.
TemplatePins(Timeline) ==
    TrackPins(Timeline.FloatTracks, PC_Float, NoSubCategoryObject)
    \o TrackPins(Timeline.VectorTracks, PC_Struct, VectorStruct)
    \o TrackPins(Timeline.LinearColorTracks, PC_Struct, LinearColorStruct)
    \o TrackPins(Timeline.EventTracks, PC_Exec, NoSubCategoryObject)

\* UK2Node_Timeline::UK2Node_Timeline
NodeConstructed ==
    [bCanRenameNode |-> FALSE, bAutoPlay |-> FALSE, bLoop |-> FALSE, bReplicated |-> FALSE,
     bIgnoreTimeDilation |-> FALSE]

\* UK2Node_Timeline::AllocateDefaultPins, on a node that has no pins yet.
AllocateDefaultPins ==
    /\ Pins = <<>>
    /\ Pins' = FixedPins \o
                 (IF TimelineTemplate.bFound THEN TemplatePins(TimelineTemplate) ELSE <<>>)
    /\ NodeFlags' =
         IF TimelineTemplate.bFound
         THEN [bCanRenameNode |-> TRUE,
               bAutoPlay |-> TimelineTemplate.bAutoPlay,
               bLoop |-> TimelineTemplate.bLoop,
               bReplicated |-> TimelineTemplate.bReplicated,
               bIgnoreTimeDilation |-> TimelineTemplate.bIgnoreTimeDilation]
         ELSE [NodeFlags EXCEPT !.bCanRenameNode = TRUE]
    /\ UNCHANGED TimelineTemplate
    /\ UNCHANGED <<cameraVars, materialVars, traceVars, moreVars, toolVars>>
    /\ UNCHANGED <<appendVars, gridVars, blutilityVars, dataTableVars, octreeVars>>

\* A template with the given track lists and play status.
MkTemplate(f, v, c, e, fl) ==
    [bFound |-> TRUE,
     FloatTracks |-> f, VectorTracks |-> v, LinearColorTracks |-> c, EventTracks |-> e,
     bAutoPlay |-> fl[1], bLoop |-> fl[2], bReplicated |-> fl[3], bIgnoreTimeDilation |-> fl[4]]

\* FindTimelineTemplateByVariableName found nothing.
NoTemplate == [MkTemplate(<<>>, <<>>, <<>>, <<>>, <<FALSE, FALSE, FALSE, FALSE>>) EXCEPT !.bFound = FALSE]

\* A new node whose blueprint holds no template under the node's timeline
\* name, or one with at most MaxTracks tracks.
PinInit ==
    /\ \/ TimelineTemplate = NoTemplate
       \/ \E nf \in 0..MaxTracks : \E nv \in 0..(MaxTracks - nf) :
          \E nc \in 0..(MaxTracks - nf - nv) : \E ne \in 0..(MaxTracks - nf - nv - nc) :
          \E f \in [1..nf -> TrackNames], v \in [1..nv -> TrackNames],
             c \in [1..nc -> TrackNames], e \in [1..ne -> TrackNames],
             fl \in [1..4 -> BOOLEAN] :
                TimelineTemplate = MkTemplate(f, v, c, e, fl)
    /\ Pins = <<>>
    /\ NodeFlags = NodeConstructed

PinIdle ==
    /\ TimelineTemplate = NoTemplate
    /\ Pins = <<>>
    /\ NodeFlags = NodeConstructed

(***************************************************************************)
(* Editor utility widgets: the loaded-UI list                              *)
(***************************************************************************)

\* The soft object paths that occur.
UIPaths == {"/Game/UI1", "/Game/UI2"}

\* What a path loads as: nothing (or an object pending kill), an object of
\* another class, a widget blueprint without a generated class, a widget
\* blueprint with one.
Asset_Missing == "Missing"
Asset_OtherClass == "OtherClass"
Asset_NoGeneratedClass == "NoGeneratedClass"
Asset_Widget == "Widget"
AssetKinds == {Asset_Missing, Asset_OtherClass, Asset_NoGeneratedClass, Asset_Widget}

\* Blueprint->GetPathName() + "_ActiveTab"
RegistrationNameOf(BlueprintPath) == BlueprintPath \o "_ActiveTab"

\* TArray::Remove
RemoveItem(Array, Item) == SelectSeq(Array, LAMBDA x : x # Item)

\* The loop of ReinitializeUIs over the entries from index i on: the
\* corrected paths and the tab spawners it ends with.
RECURSIVE ReinitializeFrom(_, _, _, _, _, _)
ReinitializeFrom(Paths, i, assets, bManager, CorrectPaths, Spawners) ==
    IF i > Len(Paths) THEN [CorrectPaths |-> CorrectPaths, Spawners |-> Spawners]
    ELSE LET BlueprintPath == Paths[i]
             RegistrationName == RegistrationNameOf(BlueprintPath)
         IN IF /\ assets[BlueprintPath] = Asset_Widget
               /\ bManager
               /\ RegistrationName \notin Spawners
            THEN ReinitializeFrom(Paths, i + 1, assets, bManager,
                                  Append(CorrectPaths, BlueprintPath),
                                  Spawners \cup {RegistrationName})
            ELSE ReinitializeFrom(Paths, i + 1, assets, bManager, CorrectPaths, Spawners)

NoUICall == [op |-> "none", before |-> <<>>, spawnersBefore |-> {}, bManager |-> FALSE]

\* FBlutilityModule::ReinitializeUIs, run for the tab-manager-changed event.
\* The event leaves the level editor with the tab manager it had, with a new
\* one (no spawners registered) or with none.
ReinitializeUIs(bReplaced, bExists) ==
    LET bManager == IF bReplaced THEN bExists ELSE bTabManager
        Spawners == IF bReplaced THEN {} ELSE TabSpawners
        out == ReinitializeFrom(LoadedUIs, 1, Assets, bManager, <<>>, Spawners)
    IN /\ LoadedUIs' = out.CorrectPaths
       /\ TabSpawners' = out.Spawners
       /\ bTabManager' = bManager
       /\ uiCall' = [op |-> "ReinitializeUIs", before |-> LoadedUIs,
                     spawnersBefore |-> Spawners, bManager |-> bManager]
       /\ UNCHANGED Assets
       /\ UNCHANGED <<cameraVars, materialVars, traceVars, moreVars, toolVars>>
       /\ UNCHANGED <<appendVars, gridVars, pinVars, dataTableVars, octreeVars>>

\* FBlutilityModule::AddLoadedScriptUI, for a loaded widget blueprint.
AddLoadedScriptUI(InBlueprint) ==
    /\ Assets[InBlueprint] \in {Asset_NoGeneratedClass, Asset_Widget}
    /\ LoadedUIs' = AddUnique(LoadedUIs, InBlueprint)
    /\ uiCall' = [op |-> "AddLoadedScriptUI", before |-> LoadedUIs,
                  spawnersBefore |-> TabSpawners, bManager |-> bTabManager]
    /\ UNCHANGED <<TabSpawners, Assets, bTabManager>>
    /\ UNCHANGED <<cameraVars, materialVars, traceVars, moreVars, toolVars>>
    /\ UNCHANGED <<appendVars, gridVars, pinVars, dataTableVars, octreeVars>>

\* FBlutilityModule::RemoveLoadedScriptUI
RemoveLoadedScriptUI(InBlueprint) ==
    /\ Assets[InBlueprint] \in {Asset_NoGeneratedClass, Asset_Widget}
    /\ LoadedUIs' = RemoveItem(LoadedUIs, InBlueprint)
    /\ uiCall' = [op |-> "RemoveLoadedScriptUI", before |-> LoadedUIs,
                  spawnersBefore |-> TabSpawners, bManager |-> bTabManager]
    /\ UNCHANGED <<TabSpawners, Assets, bTabManager>>
    /\ UNCHANGED <<cameraVars, materialVars, traceVars, moreVars, toolVars>>
    /\ UNCHANGED <<appendVars, gridVars, pinVars, dataTableVars, octreeVars>>

\* The asset behind a path is deleted, replaced or recompiled.
AssetChanged(Path, Kind) ==
    /\ Assets[Path] # Kind
    /\ Assets' = [Assets EXCEPT ![Path] = Kind]
    /\ uiCall' = [op |-> "AssetChanged", before |-> LoadedUIs,
                  spawnersBefore |-> TabSpawners, bManager |-> bTabManager]
    /\ UNCHANGED <<LoadedUIs, TabSpawners, bTabManager>>
    /\ UNCHANGED <<cameraVars, materialVars, traceVars, moreVars, toolVars>>
    /\ UNCHANGED <<appendVars, gridVars, pinVars, dataTableVars, octreeVars>>

\* The editor before the level editor has a tab manager.
BlutilityInit ==
    /\ LoadedUIs = <<>>
    /\ TabSpawners = {}
    /\ Assets \in [UIPaths -> AssetKinds]
    /\ bTabManager = FALSE
    /\ uiCall = NoUICall

BlutilityIdle ==
    /\ LoadedUIs = <<>>
    /\ TabSpawners = {}
    /\ Assets = [Path \in UIPaths |-> Asset_Missing]
    /\ bTabManager = FALSE
    /\ uiCall = NoUICall

(***************************************************************************)
(* Data-table row reference: the row-name property                         *)
(***************************************************************************)

\* Most objects edited at once.
MaxObjects == 2

NAME_None == "None"
\* The table property holding no table (nullptr).
NoTable == [bAssigned |-> FALSE, RowMap |-> <<>>]
TableRowNames == {"RowA", "RowB"}
StoredRowNames == {NAME_None, "RowA", "RowB", "RowGone"}

\* The row maps of the tables that occur, as the row names in iteration order.
DataTables ==
    {[bAssigned |-> TRUE, RowMap |-> t] :
        t \in {r \in UNION {[1..n -> TableRowNames] : n \in 0..Cardinality(TableRowNames)} :
                 \A i, j \in 1..Len(r) : r[i] = r[j] => i = j}}

\* FPropertyAccess::Result
PropertyAccess_Success == "Success"
PropertyAccess_MultipleValues == "MultipleValues"

\* IPropertyHandle::GetValue on the row-name handle: the result, and the
\* value it leaves in the default-constructed FName.
GetValueResult(Vals) ==
    IF \A i \in 1..Len(Vals) : Vals[i] = Vals[1]
    THEN PropertyAccess_Success ELSE PropertyAccess_MultipleValues
GetValueName(Vals) ==
    IF GetValueResult(Vals) = PropertyAccess_Success THEN Vals[1] ELSE NAME_None

\* IPropertyHandle::SetValue: every edited object gets the value.
SetValue(Vals, Value) == [i \in 1..Len(Vals) |-> Value]

\* The row names InitWidgetContent collects.
RowNamesOf(DataTable) == IF DataTable.bAssigned THEN DataTable.RowMap ELSE <<>>

\* Variant of the initial value below that is the stored name, row or not.
InitialValueOf_Stored(DataTable, RowName) == RowName

\* InitialValue: the item of the row equal to RowName, else a default FName.
InitialValueOf(DataTable, RowName) ==
    IF \E i \in 1..Len(RowNamesOf(DataTable)) : RowNamesOf(DataTable)[i] = RowName
    THEN RowName ELSE NAME_None

NoRowCall ==
    [op |-> "none", before |-> <<>>, RowResult |-> PropertyAccess_Success, wrote |-> FALSE,
     CurrentSelectedItem |-> NAME_None]

\* FDataTableCustomizationLayout::InitWidgetContent with the table property
\* holding DataTable, as run by OnDataTableChanged.
InitWidgetContent(op, DataTable) ==
    LET RowName == GetValueName(RowNameProp)
        RowResult == GetValueResult(RowNameProp)
        InitialValue == InitialValueOf(DataTable, RowName)
    IN /\ RowNames' = RowNamesOf(DataTable)
       /\ RowNameProp' = IF RowResult # PropertyAccess_MultipleValues
                          THEN SetValue(RowNameProp, InitialValue) ELSE RowNameProp
       /\ rowCall' = [op |-> op, before |-> RowNameProp, RowResult |-> RowResult,
                      wrote |-> RowResult # PropertyAccess_MultipleValues,
                      CurrentSelectedItem |-> InitialValue]

\* FDataTableCustomizationLayout::OnDataTableChanged, as queued by
\* CustomizeChildren or run for a change of the struct property.
OnDataTableChanged ==
    /\ InitWidgetContent("OnDataTableChanged", DataTableProp)
    /\ UNCHANGED DataTableProp
    /\ UNCHANGED <<cameraVars, materialVars, traceVars, moreVars, toolVars>>
    /\ UNCHANGED <<appendVars, gridVars, pinVars, blutilityVars, octreeVars>>

\* The user assigns a table (or none): the table property changes and its
\* value-changed delegate runs OnDataTableChanged.
AssignDataTable(DataTable) ==
    /\ DataTable # DataTableProp
    /\ DataTableProp' = DataTable
    /\ InitWidgetContent("AssignDataTable", DataTable)
    /\ UNCHANGED <<cameraVars, materialVars, traceVars, moreVars, toolVars>>
    /\ UNCHANGED <<appendVars, gridVars, pinVars, blutilityVars, octreeVars>>

\* FDataTableCustomizationLayout::OnSelectionChanged with an item of the list.
OnSelectionChanged(i) ==
    /\ i \in 1..Len(RowNames)
    /\ RowNameProp' = SetValue(RowNameProp, RowNames[i])
    /\ rowCall' = [op |-> "OnSelectionChanged", before |-> RowNameProp,
                   RowResult |-> GetValueResult(RowNameProp), wrote |-> TRUE,
                   CurrentSelectedItem |-> RowNames[i]]
    /\ UNCHANGED <<DataTableProp, RowNames>>
    /\ UNCHANGED <<cameraVars, materialVars, traceVars, moreVars, toolVars>>
    /\ UNCHANGED <<appendVars, gridVars, pinVars, blutilityVars, octreeVars>>

\* The customization as built for a selection of objects, before the queued
\* refresh has run.
DataTableInit ==
    /\ DataTableProp \in {NoTable} \cup DataTables
    /\ RowNameProp \in UNION {[1..n -> StoredRowNames] : n \in 1..MaxObjects}
    /\ RowNames = <<>>
    /\ rowCall = NoRowCall

DataTableIdle ==
    /\ DataTableProp = NoTable
    /\ RowNameProp = <<NAME_None>>
    /\ RowNames = <<>>
    /\ rowCall = NoRowCall

(***************************************************************************)
(* Navigation octree: memory statistics                                    *)
(***************************************************************************)

\* Largest size of an octree in bytes.
MaxOctreeBytes == 3

NavOctrees == {"OctreeA", "OctreeB"}
StatStartValues == {0, 7}

\* Variant of the counter below that does not take the old size off.
StatAfterResize_NoDec(Stat, OldSize, NewSize) == Stat + NewSize

\* DEC_DWORD_STAT_BY(Stat, OldSize) followed by INC_DWORD_STAT_BY(Stat, NewSize)
StatAfterResize(Stat, OldSize, NewSize) == (Stat - OldSize) + NewSize

MkOctreeCall(op, Octree, Sizes, NavigationMemory, CollisionTreeMemory, LastSize) ==
    [op |-> op, Octree |-> Octree, InitialSizes |-> Sizes,
     InitialNavigationMemory |-> NavigationMemory,
     InitialCollisionTreeMemory |-> CollisionTreeMemory, LastSize |-> LastSize]

\* SetOctreeMemoryUsage<FNavigationOctreeElement, FNavigationOctreeSemantics>
SetOctreeMemoryUsage(Octree, NewSize) ==
    /\ STAT_NavigationMemory' =
         StatAfterResize(STAT_NavigationMemory, TotalSizeBytes[Octree], NewSize)
    /\ STAT_Navigation_CollisionTreeMemory' =
         StatAfterResize(STAT_Navigation_CollisionTreeMemory, TotalSizeBytes[Octree], NewSize)
    /\ TotalSizeBytes' = [TotalSizeBytes EXCEPT ![Octree] = NewSize]
    /\ octreeCall' = [octreeCall EXCEPT !.op = "SetOctreeMemoryUsage", !.Octree = Octree,
                                        !.LastSize[Octree] = <<NewSize>>]
    /\ UNCHANGED <<cameraVars, materialVars, traceVars, moreVars, toolVars>>
    /\ UNCHANGED <<appendVars, gridVars, pinVars, blutilityVars, dataTableVars>>

\* Octrees of any sizes, with the counters at any of the start values.
OctreeInit ==
    /\ TotalSizeBytes \in [NavOctrees -> 0..MaxOctreeBytes]
    /\ STAT_NavigationMemory \in StatStartValues
    /\ STAT_Navigation_CollisionTreeMemory \in StatStartValues
    /\ octreeCall = MkOctreeCall("none", "none", TotalSizeBytes, STAT_NavigationMemory,
                                 STAT_Navigation_CollisionTreeMemory,
                                 [Octree \in NavOctrees |-> <<>>])

OctreeIdle ==
    /\ TotalSizeBytes = [Octree \in NavOctrees |-> 0]
    /\ STAT_NavigationMemory = 0
    /\ STAT_Navigation_CollisionTreeMemory = 0
    /\ octreeCall = MkOctreeCall("none", "none", TotalSizeBytes, 0, 0,
                                 [Octree \in NavOctrees |-> <<>>])

(***************************************************************************)
(* Frame trace records: calls from several threads                         *)
(***************************************************************************)
\* OutputBeginFrame and OutputEndFrame take no lock and LastFrameCycle is a
\* plain static array, so the statements of two calls interleave.  Each
\* access of LastFrameCycle is one step (a whole-word load or store).
Threads == {"GameThread", "RenderThread"}

pc_Idle == "Idle"
pc_ReadLast == "ReadLast"
pc_WriteLast == "WriteLast"
pc_Emit == "Emit"

IdleThread ==
    [pc |-> pc_Idle, GameEvent |-> "", RenderEvent |-> "", FrameType |-> TraceFrameType_Game,
     Cycle |-> Zero64, CycleDiff |-> Zero64]

\* The channel test and uint64 Cycle = FPlatformTime::Cycles64().
EnterFrameCall(t, GameEvent, RenderEvent, FrameType) ==
    /\ Thread[t].pc = pc_Idle
    /\ FrameChannelEnabled
    /\ NumFrameCalls < MaxFrameCalls
    /\ NumFrameCalls' = NumFrameCalls + 1
    /\ Thread' = [Thread EXCEPT ![t] = [pc |-> pc_ReadLast, GameEvent |-> GameEvent,
                                        RenderEvent |-> RenderEvent, FrameType |-> FrameType,
                                        Cycle |-> U64(<<Clock>>), CycleDiff |-> Zero64]]
    /\ UNCHANGED <<FrameChannelEnabled, LastFrameCycle, Records, Clock>>
    /\ UNCHANGED <<cameraVars, materialVars, toolVars, editorVars>>
    /\ UNCHANGED <<cacheVars, moduleVars, sequenceVars, loopVars>>

ThreadBeginFrame(t, FrameType) ==
    EnterFrameCall(t, "BeginGameFrame", "BeginRenderFrame", FrameType)

ThreadEndFrame(t, FrameType) ==
    EnterFrameCall(t, "EndGameFrame", "EndRenderFrame", FrameType)

\* uint64 CycleDiff = Cycle - LastFrameCycle[FrameType];
ReadLastFrameCycle(t) ==
    /\ Thread[t].pc = pc_ReadLast
    /\ Thread' = [Thread EXCEPT ![t].pc = pc_WriteLast,
                                ![t].CycleDiff = Sub64(Thread[t].Cycle,
                                                       LastFrameCycle[Thread[t].FrameType])]
    /\ UNCHANGED <<FrameChannelEnabled, LastFrameCycle, Records, NumFrameCalls, Clock>>
    /\ UNCHANGED <<cameraVars, materialVars, toolVars, editorVars>>
    /\ UNCHANGED <<cacheVars, moduleVars, sequenceVars, loopVars>>

\* LastFrameCycle[FrameType] = Cycle;
WriteLastFrameCycle(t) ==
    /\ Thread[t].pc = pc_WriteLast
    /\ LastFrameCycle' = UpdatedLastFrameCycle(TRUE, LastFrameCycle, Thread[t].FrameType,
                                               Thread[t].Cycle)
    /\ Thread' = [Thread EXCEPT ![t].pc = pc_Emit]
    /\ UNCHANGED <<FrameChannelEnabled, Records, NumFrameCalls, Clock>>
    /\ UNCHANGED <<cameraVars, materialVars, toolVars, editorVars>>
    /\ UNCHANGED <<cacheVars, moduleVars, sequenceVars, loopVars>>

\* Encode7bit into Buffer and UE_TRACE_LOG with the attachment.
EmitFrameRecord(t) ==
    /\ Thread[t].pc = pc_Emit
    /\ Records' = Append(Records,
                         [event |-> IF Thread[t].FrameType = TraceFrameType_Game
                                    THEN Thread[t].GameEvent ELSE Thread[t].RenderEvent,
                          type |-> Thread[t].FrameType,
                          cycle |-> Thread[t].Cycle,
                          attachment |-> AttachedBytes(Encode7bit(Thread[t].CycleDiff), 0)])
    /\ Thread' = [Thread EXCEPT ![t] = IdleThread]
    /\ UNCHANGED <<FrameChannelEnabled, LastFrameCycle, NumFrameCalls, Clock>>
    /\ UNCHANGED <<cameraVars, materialVars, toolVars, editorVars>>
    /\ UNCHANGED <<cacheVars, moduleVars, sequenceVars, loopVars>>

\* The cycle counter advances.
ClockTick ==
    /\ Clock < MaxClock
    /\ Clock' = Clock + 1
    /\ UNCHANGED <<Thread, traceVars>>
    /\ UNCHANGED <<cameraVars, materialVars, toolVars, editorVars>>
    /\ UNCHANGED <<cacheVars, moduleVars, sequenceVars, loopVars>>

ThreadIdle ==
    /\ Thread = [t \in Threads |-> IdleThread]
    /\ Clock = 1

(***************************************************************************)
(* FBlutilityModule: StartupModule and ShutdownModule                      *)
(***************************************************************************)
Hook_BlueprintTypeActions == "AssetTypeActions_EditorUtilityBlueprint"
Hook_WidgetBlueprintTypeActions == "AssetTypeActions_EditorUtilityWidgetBlueprint"
Hook_CompilerForBP == "RegisterCompilerForBP"
Hook_WidgetCompiler == "WidgetBlueprintCompiler"
Hook_ContentBrowserExtensions == "ContentBrowserExtensions"
Hook_LevelEditorExtensions == "LevelEditorExtensions"
Hook_TabManagerChanged == "OnTabManagerChanged"
Hook_MapChanged == "OnMapChanged"
Hook_PrepareToCleanse == "PrepareToCleanseEditorObject"
Hook_AssetRemoved == "OnAssetRemoved"

\* What StartupModule registers, in its order.
StartupHooks ==
    {Hook_BlueprintTypeActions, Hook_WidgetBlueprintTypeActions, Hook_CompilerForBP,
     Hook_WidgetCompiler, Hook_ContentBrowserExtensions, Hook_LevelEditorExtensions,
     Hook_TabManagerChanged, Hook_MapChanged, Hook_PrepareToCleanse, Hook_AssetRemoved}

\* What ShutdownModule takes out again.
ShutdownRemoves(bAssetToolsLoaded) ==
    {Hook_WidgetCompiler, Hook_LevelEditorExtensions, Hook_ContentBrowserExtensions,
     Hook_PrepareToCleanse}
      \cup (IF bAssetToolsLoaded
            THEN {Hook_BlueprintTypeActions, Hook_WidgetBlueprintTypeActions} ELSE {})

Phase_Unloaded == "Unloaded"
Phase_Started == "Started"
Phase_ShutDown == "ShutDown"

MkModuleCall(op, phase, bUObjectInitialized, before) ==
    [op |-> op, phase |-> phase, bUObjectInitialized |-> bUObjectInitialized,
     before |-> before]

StartupModule ==
    /\ moduleCall.phase = Phase_Unloaded
    /\ Hooks' = Hooks \cup StartupHooks
    /\ moduleCall' = MkModuleCall("StartupModule", Phase_Started, TRUE, Hooks)
    /\ UNCHANGED <<cameraVars, materialVars, traceVars, toolVars, editorVars>>
    /\ UNCHANGED <<cacheVars, threadVars, sequenceVars, loopVars>>

ShutdownModule(bUObjectInitialized, bAssetToolsLoaded) ==
    /\ moduleCall.phase = Phase_Started
    /\ Hooks' = IF bUObjectInitialized THEN Hooks \ ShutdownRemoves(bAssetToolsLoaded)
                ELSE Hooks
    /\ moduleCall' = MkModuleCall("ShutdownModule", Phase_ShutDown, bUObjectInitialized, Hooks)
    /\ UNCHANGED <<cameraVars, materialVars, traceVars, toolVars, editorVars>>
    /\ UNCHANGED <<cacheVars, threadVars, sequenceVars, loopVars>>

ModuleIdle ==
    /\ Hooks = {}
    /\ moduleCall = MkModuleCall("None", Phase_Unloaded, TRUE, {})

(***************************************************************************)
(* SAnimTimeline: crop, append and insert                                  *)
(***************************************************************************)
Asset_None == "nullptr"
Asset_AnimSequence == "UAnimSequence"
Asset_Other == "UAnimMontage"
PreviewAssets == {Asset_None, Asset_AnimSequence, Asset_Other}

\* The preview instance (or none), its current asset, the slider position
\* and the number of raw frames of the asset.
MkPreview(bPreviewInstance, CurrentAsset, Position, NumFrames) ==
    [bPreviewInstance |-> bPreviewInstance, CurrentAsset |-> CurrentAsset,
     Position |-> Position, NumFrames |-> NumFrames]

\* The test the three handlers make before touching anything.
HasAnimSequence(pv) == pv.bPreviewInstance /\ pv.CurrentAsset = Asset_AnimSequence

MkSeqCall(op, bSequence, Transactions, Modified, bSetPosition, Refreshes, before) ==
    [op |-> op, bSequence |-> bSequence, Transactions |-> Transactions,
     Modified |-> Modified, bSetPosition |-> bSetPosition, Refreshes |-> Refreshes,
     before |-> before]

\* UAnimSequence::CropRawAnimData(CurrentTime, bFromStart) with the time
\* given as a frame: the frames kept.
CropRawAnimData(NumFrames, CurrentFrame, bFromStart) ==
    IF CurrentFrame <= 0 \/ CurrentFrame >= NumFrames THEN NumFrames
    ELSE IF bFromStart THEN NumFrames - CurrentFrame ELSE CurrentFrame

\* UAnimSequence::InsertFramesToRawAnimData(StartFrame, EndFrame, CopyFrame)
InsertFramesToRawAnimData(NumFrames, StartFrame, EndFrame, CopyFrame) ==
    IF EndFrame > StartFrame /\ StartFrame \in 0..NumFrames /\ CopyFrame \in 0..(NumFrames - 1)
    THEN NumFrames + (EndFrame - StartFrame)
    ELSE NumFrames

OnCropAnimSequence(bFromStart, CurrentFrame) ==
    /\ IF HasAnimSequence(Preview)
       THEN /\ Preview' = [Preview EXCEPT
                              !.NumFrames = CropRawAnimData(@, CurrentFrame, bFromStart),
                              !.Position = 0]
            /\ seqCall' = MkSeqCall("OnCropAnimSequence", TRUE, 1,
                                    {"PreviewInstance", "AnimSequence"}, TRUE, 1, Preview)
       ELSE /\ Preview' = Preview
            /\ seqCall' = MkSeqCall("OnCropAnimSequence", FALSE, 0, {}, FALSE, 0, Preview)
    /\ UNCHANGED <<cameraVars, materialVars, traceVars, toolVars, editorVars>>
    /\ UNCHANGED <<cacheVars, threadVars, moduleVars, loopVars>>

OnAppendAnimSequence(bFromStart, NumOfFrames) ==
    /\ IF HasAnimSequence(Preview)
       THEN LET StartFrame == IF bFromStart THEN 0 ELSE Preview.NumFrames - 1
                EndFrame == StartFrame + NumOfFrames
                CopyFrame == StartFrame
            IN /\ Preview.NumFrames + NumOfFrames <= MaxSeqFrames
               /\ Preview' = [Preview EXCEPT !.NumFrames =
                                 InsertFramesToRawAnimData(@, StartFrame, EndFrame, CopyFrame)]
               /\ seqCall' = MkSeqCall("OnAppendAnimSequence", TRUE, 1,
                                       {"PreviewInstance", "AnimSequence"}, FALSE, 1, Preview)
       ELSE /\ Preview' = Preview
            /\ seqCall' = MkSeqCall("OnAppendAnimSequence", FALSE, 0, {}, FALSE, 0, Preview)
    /\ UNCHANGED <<cameraVars, materialVars, traceVars, toolVars, editorVars>>
    /\ UNCHANGED <<cacheVars, threadVars, moduleVars, loopVars>>

OnInsertAnimSequence(bBefore, CurrentFrame) ==
    /\ IF HasAnimSequence(Preview)
       THEN LET StartFrame == IF bBefore THEN CurrentFrame ELSE CurrentFrame + 1
                EndFrame == StartFrame + 1
            IN /\ Preview.NumFrames + 1 <= MaxSeqFrames
               /\ Preview' = [Preview EXCEPT !.NumFrames =
                                 InsertFramesToRawAnimData(@, StartFrame, EndFrame, CurrentFrame)]
               /\ seqCall' = MkSeqCall("OnInsertAnimSequence", TRUE, 1,
                                       {"PreviewInstance", "AnimSequence"}, FALSE, 1, Preview)
       ELSE /\ Preview' = Preview
            /\ seqCall' = MkSeqCall("OnInsertAnimSequence", FALSE, 0, {}, FALSE, 0, Preview)
    /\ UNCHANGED <<cameraVars, materialVars, traceVars, toolVars, editorVars>>
    /\ UNCHANGED <<cacheVars, threadVars, moduleVars, loopVars>>

\* The user scrubs the slider to another frame of the asset.
ScrubTo(Frame) ==
    /\ Preview.bPreviewInstance
    /\ Frame \in 0..(Preview.NumFrames - 1)
    /\ Frame # Preview.Position
    /\ Preview' = [Preview EXCEPT !.Position = Frame]
    /\ seqCall' = MkSeqCall("ScrubTo", HasAnimSequence(Preview), 0, {}, TRUE, 0, Preview)
    /\ UNCHANGED <<cameraVars, materialVars, traceVars, toolVars, editorVars>>
    /\ UNCHANGED <<cacheVars, threadVars, moduleVars, loopVars>>

SequenceInit ==
    /\ \E bPreviewInstance \in BOOLEAN, CurrentAsset \in PreviewAssets,
          NumFrames \in 1..MaxSeqFrames :
          Preview = MkPreview(bPreviewInstance,
                              IF bPreviewInstance THEN CurrentAsset ELSE Asset_None,
                              0, NumFrames)
    /\ seqCall = MkSeqCall("None", FALSE, 0, {}, FALSE, 0, Preview)

SequenceIdle ==
    /\ Preview = MkPreview(FALSE, Asset_None, 0, 1)
    /\ seqCall = MkSeqCall("None", FALSE, 0, {}, FALSE, 0, Preview)

(***************************************************************************)
(* ComputeGridSpacing: the loop that builds CommonBases, pass by pass      *)
(***************************************************************************)
pc_Loop == "Loop"
pc_Done == "Done"

\* Pass is the parity of the number of passes made (history only).
MkBaseLoop(RoundedFPS, LowestBase, CommonBases, Pass, pc) ==
    [RoundedFPS |-> RoundedFPS, LowestBase |-> LowestBase, CommonBases |-> CommonBases,
     Pass |-> Pass, pc |-> pc]

\* CommonBases.Add as the model keeps it: the first MaxBases entries.
AddBase(CommonBases, LowestBase) ==
    IF Len(CommonBases) < MaxBases THEN Append(CommonBases, LowestBase) ELSE CommonBases

\* Whether a pass of the loop reaches `break`: none of the three divisions
\* is exact and no quotient is both positive and below LowestBase.
LoopBreaks(LowestBase) ==
    /\ LowestBase % 2 # 0
    /\ LowestBase % 3 # 0
    /\ LowestBase % 5 # 0
    /\ ~(NextLowestBase(LowestBase) < LowestBase)

\* One pass of for (;;): CommonBases.Add(LowestBase), then the division or
\* the break.  A pass is possible for as long as the break was not reached.
LoopPass ==
    /\ baseLoop.pc = pc_Loop
    /\ baseLoop' = MkBaseLoop(baseLoop.RoundedFPS,
                              NextLowestBase(baseLoop.LowestBase),
                              AddBase(baseLoop.CommonBases, baseLoop.LowestBase),
                              1 - baseLoop.Pass,
                              IF LoopBreaks(baseLoop.LowestBase) THEN pc_Done ELSE pc_Loop)
    /\ UNCHANGED <<cameraVars, materialVars, traceVars, toolVars, editorVars>>
    /\ UNCHANGED <<cacheVars, threadVars, moduleVars, sequenceVars>>

\* int32 LowestBase = RoundedFPS; for a rounded rate of 0 .. MaxFPS.
LoopInit ==
    \E RoundedFPS \in 0..MaxFPS : baseLoop = MkBaseLoop(RoundedFPS, RoundedFPS, <<>>, 0, pc_Loop)

LoopIdle == baseLoop = MkBaseLoop(1, 1, <<1>>, 1, pc_Done)

\* The subsystems of this part at rest.
MoreIdle == CacheIdle /\ ThreadIdle /\ ModuleIdle /\ SequenceIdle /\ LoopIdle

\* The editor-side subsystems at rest.
EditorIdle ==
    AppendIdle /\ GridIdle /\ PinIdle /\ BlutilityIdle /\ DataTableIdle /\ OctreeIdle

\* Initial state of the later subsystems where they are not exercised.
LaterInit == ToolManagerIdle /\ EditorIdle /\ MoreIdle

(***************************************************************************)
(* Camera-cut track: initial state and specifications                      *)
(***************************************************************************)
FrameRates == [Numerator : 1..MaxNumerator, Denominator : 1..MaxDenominator]

\* A constructed, empty track.  bCanBlend is an editable property of the
\* track; playback range and tick resolution belong to the owning scene.
CameraCutInit ==
    /\ Sections = <<>>
    /\ bCanBlend \in BOOLEAN
    /\ PlayEnd \in 1..MaxPlayEnd
    /\ TickResolution \in FrameRates
    /\ lastCall = NoCall

\* Section objects handed to AddSection: any range, bounded or open.
AddableSections ==
    {MkSection(NewObjectId(Sections), hs, IF hs THEN s ELSE 0, he, IF he THEN e ELSE 0, cam) :
        hs \in BOOLEAN, he \in BOOLEAN, s \in StartTimes, e \in StartTimes, cam \in Cameras}

CallAddNewCameraCut == \E cam \in Cameras, t \in StartTimes : AddNewCameraCut(cam, t)
CallRemoveSection == \E id \in SectionIds(Sections) : RemoveSection(id)
CallRemoveSectionAt == \E i \in 1..Len(Sections) : RemoveSectionAt(i)
CallSupportsEasing == \E id \in SectionIds(Sections) \cup {NoSection} : SupportsEasing(id)
CallAddSection ==
    \E sec \in {x \in AddableSections : ~x.hasStart \/ ~x.hasEnd \/ x.start < x.end},
       isCameraCut \in BOOLEAN : AddSection(sec, isCameraCut)

vars == <<Sections, bCanBlend, PlayEnd, TickResolution, lastCall, NameHash, Cached, lastFind, FrameChannelEnabled, LastFrameCycle, Records, NumFrameCalls, laterVars>>

\* The track as constructed, in a scene with one fixed configuration.
CameraCutConstructed ==
    /\ Sections = <<>>
    /\ bCanBlend = FALSE
    /\ PlayEnd = 1
    /\ TickResolution = [Numerator |-> 1, Denominator |-> 1]
    /\ lastCall = NoCall

\* One fixed hash assignment, used where the parameter table is not exercised.
DistinctHashes == NameHash = [n \in Names |-> IF n = "N1" THEN 1 ELSE 2]

Init == CameraCutInit /\ MaterialInit /\ DistinctHashes /\ TraceInit /\ LaterInit

Next ==
    \/ CallAddNewCameraCut
    \/ CallRemoveSection
    \/ CallRemoveSectionAt
    \/ CallSupportsEasing

Spec == Init /\ [][Next]_vars

\* The track with sections also added through AddSection.
NextAddSection ==
    \/ CallAddNewCameraCut
    \/ CallAddSection
    \/ CallSupportsEasing

SpecAddSection == Init /\ [][NextAddSection]_vars

(***************************************************************************)
(* Camera-cut track: properties                                            *)
(***************************************************************************)
IsReturnOfAdd == lastCall.op = "AddNewCameraCut" /\ lastCall.ret \in 1..Len(Sections)

\* C1: AddNewCameraCut(binding, start) - if some section has a start and an
\* end frame equal to start and to FindEndTimeForCameraCut(start), the first
\* such section gets the binding, is the section returned, and the number of
\* sections does not change; otherwise exactly one section [start, end) with
\* that binding is added and returned.
C1_AddSwapsOrAppends ==
    [][\A cam \in Cameras, t \in StartTimes :
          AddNewCameraCut(cam, t) =>
             LET endT == FindEndTimeForCameraCut(Sections, t)
                 same == {i \in 1..Len(Sections) :
                            /\ Sections[i].hasStart /\ Sections[i].start = t
                            /\ Sections[i].hasEnd /\ Sections[i].end = endT}
                 ret == lastCall'.ret
             IN /\ ret \in 1..Len(Sections')
                /\ Sections'[ret].hasStart /\ Sections'[ret].start = t
                /\ Sections'[ret].hasEnd /\ Sections'[ret].end = endT
                /\ Sections'[ret].camera = cam
                /\ IF same # {}
                   THEN /\ Len(Sections') = Len(Sections)
                        /\ lastCall'.existed
                        /\ \A c \in Cameras :
                              Cardinality({i \in 1..Len(Sections') : i # ret /\ Sections'[i].camera = c})
                              = Cardinality({i \in 1..Len(Sections) :
                                               /\ i # (CHOOSE m \in same : \A k \in same : m <= k)
                                               /\ Sections[i].camera = c})
                   ELSE /\ Len(Sections') = Len(Sections) + 1
                        /\ ~lastCall'.existed]_vars

\* The binding of an existing section was swapped while other sections exist.
C1_Witness ==
    /\ IsReturnOfAdd /\ lastCall.existed /\ Len(Sections) >= 2
    /\ \E i \in 1..Len(Sections) : Sections[i].camera # Sections[lastCall.ret].camera

\* C2: the section returned by AddNewCameraCut is never zero-length, i.e.
\* the end time found for its start is strictly greater than the start.
C2_NeverZeroLength ==
    IsReturnOfAdd => Sections[lastCall.ret].start < Sections[lastCall.ret].end

Overlap(a, b) ==
    /\ ~IsEmptyRange(a) /\ ~IsEmptyRange(b)
    /\ (~a.hasStart \/ ~b.hasEnd \/ a.start < b.end)
    /\ (~b.hasStart \/ ~a.hasEnd \/ b.start < a.end)

AscendingStarts(secs) == \A i, j \in 1..Len(secs) : i < j => LowerBoundLE(secs[i], secs[j])

NoOverlaps(secs) == \A i, j \in 1..Len(secs) : i # j => ~Overlap(secs[i], secs[j])

\* C3: with blending disabled the section list is in ascending start order
\* and no two sections overlap, after any sequence of AddNewCameraCut,
\* RemoveSection and RemoveSectionAt.
C3_OrderedNoOverlap ==
    ~bCanBlend => AscendingStarts(Sections) /\ NoOverlaps(Sections)

\* C4: SupportsEasing for a section of the track - nothing when blending is
\* disabled; automatic and both manual easings when it is the only section;
\* with several sections automatic easing for all, manual ease-in exactly
\* for the first and manual ease-out exactly for the last.
C4_EasingByPosition ==
    (lastCall.op = "SupportsEasing" /\ lastCall.ret \in 1..Len(Sections)) =>
        LET f == lastCall.flags
            n == Len(Sections)
        IN /\ ~bCanBlend => f = {}
           /\ (bCanBlend /\ n = 1) => f = {AutomaticEasing, ManualEaseIn, ManualEaseOut}
           /\ (bCanBlend /\ n > 1) =>
                 /\ AutomaticEasing \in f
                 /\ ManualEaseIn \in f <=> lastCall.ret = 1
                 /\ ManualEaseOut \in f <=> lastCall.ret = n

\* The query was made for the last of three sections of a blending track.
C4_Witness ==
    /\ lastCall.op = "SupportsEasing" /\ bCanBlend
    /\ Len(Sections) = 3 /\ lastCall.ret = 3
    /\ lastCall.flags = {AutomaticEasing, ManualEaseOut}

(***************************************************************************)
(* Material parameter cache: specifications and properties                 *)
(***************************************************************************)
CallInsertOverride == \E info \in ParameterInfoSet, v \in Values : InsertOverride(info, v)
CallInsertExpression ==
    \E info \in ParameterInfoSet, g \in Guids, v \in Values : InsertExpression(info, g, v)
CallLookupParameter == \E info \in ParameterInfoSet : LookupParameter(info)

\* Any assignment of hashes to names, collisions included.
InitParams ==
    /\ CameraCutConstructed
    /\ MaterialInit
    /\ NameHash \in [Names -> 1..MaxHash]
    /\ TraceInit
    /\ LaterInit

NextParams ==
    \/ CallInsertOverride
    \/ CallInsertExpression
    \/ CallLookupParameter

SpecParams == InitParams /\ [][NextParams]_vars

\* Insertions only.
NextInsert ==
    \/ CallInsertOverride
    \/ CallInsertExpression

SpecInsert == InitParams /\ [][NextInsert]_vars

EntryIndices(cd) == 1..Len(cd.Entry.NameHashes)

ScopeLE(a, b) ==
    \/ a.Association < b.Association
    \/ (a.Association = b.Association /\ a.Index <= b.Index)

FindIsExact ==
    (lastFind.asked /\ \E i \in EntryIndices(Cached) :
                          Cached.Entry.ParameterInfos[i] = lastFind.info)
    => /\ lastFind.index # INDEX_NONE
       /\ Cached.Entry.ParameterInfos[lastFind.index + 1] = lastFind.info

\* C6: for every assignment of hashes to names, collisions included,
\* FindParameterIndex of an inserted (name, association, index) returns the
\* index of the entry with exactly that parameter info.
C6_FindExact_AnyHashes == FindIsExact

HashesDistinct == \A n1, n2 \in Names : n1 # n2 => NameHash[n1] # NameHash[n2]

\* The lookup is exact in the runs in which no two names share a hash.
FindExact_DistinctHashes == HashesDistinct => FindIsExact

HitsOf(cd, info) == {i \in EntryIndices(cd) : cd.Entry.ParameterInfos[i] = info}

\* Override insertion, then expression insertion, then a further insertion of
\* the same parameter, starting from table `cd`.
LatchHolds(cd, info) ==
    \A v1 \in Values, g \in Guids, g3 \in Guids :
      \A v2 \in Values \ {v1} :
        LET t1 == AddScalarOverride(cd, info, v1)
            t2 == AddScalarExpression(t1, info, g, v2)
            t3 == AddScalarExpression(t2, info, g3, v2)
            t4 == AddScalarOverride(t2, info, v2)
        IN /\ Cardinality(HitsOf(t2, info)) = 1
           /\ \A i \in HitsOf(t2, info) :
                 /\ t2.Entry.ExpressionGuids[i] = g
                 /\ t2.Entry.Overrides[i] = TRUE
                 /\ t2.ScalarValues[i] = v1
           /\ Len(t2.ScalarValues) = Len(t2.Entry.NameHashes)
           /\ t3 = t2
           /\ t4 = t2

\* C7 as stated: in any reached table, for any parameter.
C7_Latch_AnyTable == \A info \in ParameterInfoSet : LatchHolds(Cached, info)

\* C7 amended: in any reached table that does not yet hold the parameter.
C7_Latch_NewParameter ==
    \A info \in ParameterInfoSet : HitsOf(Cached, info) = {} => LatchHolds(Cached, info)

\* An override entry has received an expression id next to another entry.
C7_Witness ==
    /\ Len(Cached.Entry.NameHashes) = 2
    /\ \E i \in EntryIndices(Cached) :
          Cached.Entry.Overrides[i] /\ Cached.Entry.ExpressionGuids[i] \in Guids
    /\ \E info \in ParameterInfoSet : HitsOf(Cached, info) = {}

CallUpdateMaterial == \E exprs \in ExpressionLists : UpdateMaterial(exprs)

InitExpressions == CameraCutConstructed /\ MaterialInit /\ DistinctHashes /\ TraceInit /\ LaterInit

NextExpressions ==
    \/ CallUpdateMaterial
    \/ Reset

SpecExpressions == InitExpressions /\ [][NextExpressions]_vars

NoDuplicates(arr) == \A i, j \in 1..Len(arr) : i # j => arr[i] # arr[j]

\* C8: after UpdateForExpressions none of ReferencedTextures, FunctionInfos,
\* ParameterCollectionInfos and GrassTypes holds an entry twice.
C8_ListsDeduplicated ==
    /\ NoDuplicates(Cached.ReferencedTextures)
    /\ NoDuplicates(Cached.FunctionInfos)
    /\ NoDuplicates(Cached.ParameterCollectionInfos)
    /\ NoDuplicates(Cached.GrassTypes)

(***************************************************************************)
(* Frame trace records: specification and properties                       *)
(***************************************************************************)
\* Values the cycle counter is read as.
CycleValues == {U64(<<1>>), U64(<<0, 1>>), TwoTo63, Max64}

CallOutputBeginFrame ==
    \E t \in FrameTypes, c \in CycleValues, b \in StrayBytes : OutputBeginFrame(t, c, b)
CallOutputEndFrame ==
    \E t \in FrameTypes, c \in CycleValues, b \in StrayBytes : OutputEndFrame(t, c, b)

InitTrace == CameraCutConstructed /\ MaterialInit /\ DistinctHashes /\ TraceInit /\ LaterInit

NextTrace ==
    \/ CallOutputBeginFrame
    \/ CallOutputEndFrame
    \/ ToggleFrameChannel

SpecTrace == InitTrace /\ [][NextTrace]_vars

RECURSIVE RecordsOfType(_, _)
RecordsOfType(recs, t) ==
    IF recs = <<>> THEN <<>>
    ELSE IF Head(recs).type = t THEN <<Head(recs)>> \o RecordsOfType(Tail(recs), t)
    ELSE RecordsOfType(Tail(recs), t)

\* The cycle read by the last call of a frame type that emitted a record.
LastEmittedCycle(recs, t) ==
    LET rs == RecordsOfType(recs, t) IN
    IF rs = <<>> THEN Zero64 ELSE rs[Len(rs)].cycle

\* C9: a call made while the frame channel is disabled emits no record and
\* leaves LastFrameCycle of both frame types unchanged, so LastFrameCycle is
\* always the cycle of the last call of that type made while enabled.
C9_DisabledIsNoOp ==
    [][/\ (NumFrameCalls' # NumFrameCalls /\ ~FrameChannelEnabled)
             => (LastFrameCycle' = LastFrameCycle /\ Records' = Records)
       /\ \A t \in FrameTypes : LastFrameCycle'[t] = LastEmittedCycle(Records', t)]_vars

\* A call was made while disabled, after an emitted record and before the
\* channel was enabled again.
C9_Witness ==
    /\ FrameChannelEnabled
    /\ Len(Records) = 1
    /\ NumFrameCalls = 2
    /\ LastFrameCycle[Records[1].type] = Records[1].cycle

EarlierIdle == CameraCutConstructed /\ MaterialInit /\ DistinctHashes /\ TraceInit /\ MoreIdle

CallRegisterToolType == \E id \in ToolIdentifiers : RegisterToolType(id)
CallSelectActiveToolType ==
    \E Side \in ToolSides, id \in ToolIdentifiers : SelectActiveToolType(Side, id)
CallActivateTool == \E Side \in ToolSides : ActivateTool(Side)
CallDeactivateTool ==
    \E Side \in ToolSides, sd \in ShutdownTypes : DeactivateTool(Side, sd)
CallSelectionChanged == \E id \in ToolIdentifiers : SelectionChanged(id)

InitToolManager == EarlierIdle /\ ToolManagerInit /\ EditorIdle

\* The manager's own calls.
NextToolManager ==
    \/ CallRegisterToolType
    \/ CallSelectActiveToolType
    \/ CallActivateTool
    \/ CallDeactivateTool
    \/ CallSelectionChanged

SpecToolManager == InitToolManager /\ [][NextToolManager]_vars

\* The manager's calls and the host's undo and redo.
NextToolUndo ==
    \/ CallRegisterToolType
    \/ CallSelectActiveToolType
    \/ CallActivateTool
    \/ CallDeactivateTool
    \/ UndoTransaction
    \/ RedoTransaction

SpecToolUndo == InitToolManager /\ [][NextToolUndo]_vars

EventsOf(call) == {call.events[i] : i \in 1..Len(call.events)}

\* C11: under FullUndoRedo, ActivateTool on a side holding tool A with
\* builder B selected emits exactly two records in one transaction, the
\* deactivation of A and then the activation of B; undoing that transaction
\* leaves a tool of A's type active and B's tool shut down, redoing it
\* leaves B's tool active and A's shut down.
C11_FullUndoRedoSwitch ==
    /\ (/\ toolCall.op = "ActivateTool" /\ toolCall.ret
        /\ ActiveToolChangeTrackingMode = FullUndoRedo /\ toolCall.hadTool # NoTool)
       => /\ Len(toolCall.changes) = 2
          /\ toolCall.changes[1].kind = "ActivateTool" /\ toolCall.changes[1].bIsDeactivate
          /\ toolCall.changes[1].Side = toolCall.Side
          /\ toolCall.changes[1].ToolType = toolCall.hadTool
          /\ toolCall.changes[2].kind = "ActivateTool" /\ ~toolCall.changes[2].bIsDeactivate
          /\ toolCall.changes[2].Side = toolCall.Side
          /\ toolCall.changes[2].ToolType = ActiveTool[toolCall.Side]
          /\ UndoStack # <<>> /\ UndoStack[Len(UndoStack)] = toolCall.changes
    /\ (toolCall.op = "Undo" /\ Len(toolCall.changes) = 2)
       => LET a == toolCall.changes[1]
              b == toolCall.changes[2]
          IN /\ ActiveTool[a.Side] = a.ToolType
             /\ toolCall.events = <<ToolEnded(b.Side, b.ToolType, ShutdownType_Cancel),
                                    ToolStarted(a.Side, a.ToolType)>>
    /\ (toolCall.op = "Redo" /\ Len(toolCall.changes) = 2)
       => LET a == toolCall.changes[1]
              b == toolCall.changes[2]
          IN /\ ActiveTool[b.Side] = b.ToolType
             /\ toolCall.events = <<ToolEnded(a.Side, a.ToolType, a.ShutdownType),
                                    ToolStarted(b.Side, b.ToolType)>>

\* A switch from one tool type to another was undone and redone.
C11_Witness ==
    /\ toolCall.op = "Redo" /\ Len(toolCall.changes) = 2
    /\ toolCall.changes[1].ToolType # toolCall.changes[2].ToolType
    /\ ActiveTool[toolCall.changes[2].Side] = toolCall.changes[2].ToolType

\* C12: under UndoToExit a successful ActivateTool emits exactly one record;
\* undoing it deactivates the side's active tool through the cancel path and
\* redoing it does nothing, so the side has no active tool after undo and
\* redo.  Under NoChangeTracking no record is ever emitted.
C12_UndoToExit ==
    /\ (/\ toolCall.op = "ActivateTool" /\ toolCall.ret
        /\ ActiveToolChangeTrackingMode = UndoToExit)
       => /\ Len(toolCall.changes) = 1
          /\ toolCall.changes[1].kind = "BeginTool"
          /\ UndoStack # <<>> /\ UndoStack[Len(UndoStack)] = toolCall.changes
    /\ ActiveToolChangeTrackingMode = UndoToExit
       => /\ toolCall.op = "DeactivateTool" => toolCall.changes = <<>>
          /\ toolCall.op = "Undo"
             => /\ ~HasActiveTool(toolCall.changes[1].Side)
                /\ \A e \in EventsOf(toolCall) :
                      e.event = "OnToolEnded" /\ e.ShutdownType = ShutdownType_Cancel
          /\ toolCall.op = "Redo"
             => /\ toolCall.events = <<>>
                /\ ~HasActiveTool(toolCall.changes[1].Side)
    /\ ActiveToolChangeTrackingMode = NoChangeTracking
       => /\ toolCall.changes = <<>>
          /\ UndoStack = <<>> /\ RedoStack = <<>>

\* An activation was undone, cancelling the tool, and then redone.
C12_Witness ==
    /\ ActiveToolChangeTrackingMode = UndoToExit
    /\ toolCall.op = "Redo"
    /\ ~HasAnyActiveTool
    /\ UndoStack # <<>>

\* The notifications of one operation, for one side, start and end tools in
\* turn, given whether the side had a tool before.
RECURSIVE StartsAndEndsInTurn(_, _, _)
StartsAndEndsInTurn(events, Side, active) ==
    IF events = <<>> THEN TRUE
    ELSE IF Head(events).Side # Side THEN StartsAndEndsInTurn(Tail(events), Side, active)
    ELSE IF Head(events).event = "OnToolStarted"
    THEN ~active /\ StartsAndEndsInTurn(Tail(events), Side, TRUE)
    ELSE active /\ StartsAndEndsInTurn(Tail(events), Side, FALSE)

\* C13: each side holds at most one tool; ActivateTool returns true only if
\* a builder is selected on the side and reports it can build; a side has
\* an active tool exactly from a successful ActivateTool to the next
\* DeactivateTool, which clears the side's active tool and active builder;
\* a started tool is ended before another one starts on the side.
C13_ToolLifecycle ==
    [][\A Side \in ToolSides :
          /\ (toolCall'.op = "ActivateTool" /\ toolCall'.Side = Side /\ toolCall'.ret)
             => /\ ActiveBuilder[Side] # NoBuilder /\ CanBuild[ActiveBuilder[Side]]
                /\ HasActiveTool(Side)'
                /\ ActiveTool'[Side] = ActiveBuilder[Side]
          /\ (HasActiveTool(Side)' /\ ~HasActiveTool(Side))
             => (toolCall'.op = "ActivateTool" /\ toolCall'.Side = Side /\ toolCall'.ret)
          /\ (~HasActiveTool(Side)' /\ HasActiveTool(Side))
             => (toolCall'.op = "DeactivateTool" /\ toolCall'.Side = Side)
          /\ (toolCall'.op = "DeactivateTool" /\ toolCall'.Side = Side)
             => /\ ActiveTool'[Side] = NoTool
                /\ HasActiveTool(Side) => ActiveBuilder'[Side] = NoBuilder
          /\ StartsAndEndsInTurn(toolCall'.events, Side, HasActiveTool(Side))
          /\ (Len(toolCall'.events) > 0 /\ toolCall'.events[Len(toolCall'.events)].Side = Side)
             => (HasActiveTool(Side)'
                   <=> toolCall'.events[Len(toolCall'.events)].event = "OnToolStarted")]_vars

\* A tool replaced another on a side while the other side held its own tool.
C13_Witness ==
    /\ toolCall.op = "ActivateTool" /\ toolCall.ret /\ toolCall.hadTool # NoTool
    /\ toolCall.hadTool # ActiveTool[toolCall.Side]
    /\ \A Side \in ToolSides : HasActiveTool(Side)

(***************************************************************************)
(* Animation timeline: specifications and properties                       *)
(***************************************************************************)

CallOnSequenceAppendedCalled ==
    OnSequenceAppendedCalled(appendCall.text, appendCall.CommitInfo, appendCall.bBegin)

InitAppend ==
    /\ EarlierIdle /\ ToolManagerIdle
    /\ AppendInit /\ GridIdle /\ PinIdle /\ BlutilityIdle /\ DataTableIdle /\ OctreeIdle

NextAppend == CallOnSequenceAppendedCalled

SpecAppend == InitAppend /\ [][NextAppend]_vars

\* The text is an integer: an optional sign and then decimal digits only.
IsIntegerText(text) ==
    LET j == IF Len(text) >= 1 /\ text[1] \in {"-", "+"} THEN 2 ELSE 1
    IN j <= Len(text) /\ \A k \in j..Len(text) : text[k] \in DigitChars

\* The integer such a text denotes.
IntegerOf(text) ==
    LET j == IF Len(text) >= 1 /\ text[1] \in {"-", "+"} THEN 2 ELSE 1
        v == AccumulateDigits(text, j, 0)
    IN IF Len(text) >= 1 /\ text[1] = "-" THEN 0 - v ELSE v

\* C14: the commit handler invokes the append operation if and only if the
\* commit is OnEnter and the text is an integer n with 0 < n < 1000, and then
\* passes exactly n.
C14_AppendIffInteger ==
    appendCall.op = "OnSequenceAppendedCalled" =>
        LET valid == /\ appendCall.CommitInfo = ETextCommit_OnEnter
                     /\ IsIntegerText(appendCall.text)
                     /\ 0 < IntegerOf(appendCall.text)
                     /\ IntegerOf(appendCall.text) < 1000
        IN /\ appendCall.appended <=> valid
           /\ appendCall.appended => appendCall.NumFrames = IntegerOf(appendCall.text)

\* What does hold of the handler: it appends only on OnEnter, only a count
\* strictly between 0 and 1000, every integer text in that range is
\* appended with its value, and "0", "-5", "abc" and "1000" never append.
AppendOnlyInRange ==
    appendCall.op = "OnSequenceAppendedCalled" =>
        /\ appendCall.appended =>
              /\ appendCall.CommitInfo = ETextCommit_OnEnter
              /\ 0 < appendCall.NumFrames /\ appendCall.NumFrames < 1000
        /\ (/\ appendCall.CommitInfo = ETextCommit_OnEnter
            /\ IsIntegerText(appendCall.text)
            /\ 0 < IntegerOf(appendCall.text) /\ IntegerOf(appendCall.text) < 1000)
           => appendCall.appended /\ appendCall.NumFrames = IntegerOf(appendCall.text)
        /\ appendCall.text \in {<<"0">>, <<"-", "5">>, <<"a", "a", "a">>, <<"1", "0", "0", "0">>}
           => ~appendCall.appended

CallComputeGridSpacing ==
    \E PixelsPerSecond \in PixelsPerSecondValues : ComputeGridSpacingCall(PixelsPerSecond)

InitGrid ==
    /\ EarlierIdle /\ ToolManagerIdle
    /\ AppendIdle /\ GridInit /\ PinIdle /\ BlutilityIdle /\ DataTableIdle /\ OctreeIdle

NextGrid == CallComputeGridSpacing

SpecGrid == InitGrid /\ [][NextGrid]_vars

\* C15: for a fixed frame rate and fixed tick widths, of two computations
\* the one with the larger PixelsPerSecond has a major interval in frames
\* that is less than or equal to the other's.
C15_MajorIntervalMonotone ==
    Len(gridCall.calls) = 2 =>
        /\ gridCall.calls[1].PixelsPerSecond < gridCall.calls[2].PixelsPerSecond
           => gridCall.calls[2].MajorIntervalFrames <= gridCall.calls[1].MajorIntervalFrames
        /\ gridCall.calls[2].PixelsPerSecond < gridCall.calls[1].PixelsPerSecond
           => gridCall.calls[1].MajorIntervalFrames <= gridCall.calls[2].MajorIntervalFrames

\* Two computations at different zooms whose major intervals differ.
C15_Witness ==
    /\ Len(gridCall.calls) = 2
    /\ gridCall.calls[1].PixelsPerSecond < gridCall.calls[2].PixelsPerSecond
    /\ gridCall.calls[2].MajorIntervalFrames < gridCall.calls[1].MajorIntervalFrames
    /\ gridCall.calls[1].MajorIntervalFrames > RoundedFPSOf(gridCall.InFrameRate)

\* C16: for every rounded frame rate of at least 1 and positive inputs the
\* minor-division count returned is a positive integer that evenly divides
\* the major interval in frames.
C16_MinorDividesMajor ==
    \A i \in 1..Len(gridCall.calls) :
        /\ gridCall.calls[i].OutMinorDivisions > 0
        /\ gridCall.calls[i].MajorIntervalFrames % gridCall.calls[i].OutMinorDivisions = 0

\* A computation whose loop passed over a base and found a proper division.
C16_Witness ==
    \E i \in 1..Len(gridCall.calls) :
        /\ gridCall.calls[i].OutMinorDivisions > 1
        /\ gridCall.calls[i].OutMinorDivisions < gridCall.calls[i].MajorIntervalFrames

(***************************************************************************)
(* Timeline node: specification and properties                             *)
(***************************************************************************)

InitPins ==
    /\ EarlierIdle /\ ToolManagerIdle
    /\ AppendIdle /\ GridIdle /\ PinInit /\ BlutilityIdle /\ DataTableIdle /\ OctreeIdle

NextPins == AllocateDefaultPins

SpecPins == InitPins /\ [][NextPins]_vars

\* Number of the node's pins of a direction, category, sub-category object
\* and name.
CountPins(Dir, PinCategory, PinSubCategoryObject, PinName) ==
    Cardinality({i \in 1..Len(Pins) :
                   Pins[i] = CreatePin(Dir, PinCategory, PinSubCategoryObject, PinName)})

\* Number of pins of a direction and category whose name is not a track's.
CountFixed(Dir, PinCategory) ==
    Cardinality({i \in 1..Len(Pins) :
                   /\ Pins[i].Direction = Dir /\ Pins[i].PinCategory = PinCategory
                   /\ Pins[i].PinName \notin TrackNames})

\* Number of occurrences of a name in a track list.
CountTracks(Tracks, Name) == Cardinality({i \in 1..Len(Tracks) : Tracks[i] = Name})

\* The N+M+K+J track pins: for every track name, as many output pins of each
\* type as the list of that type holds tracks of the name, in any order.
TrackPinsMatch ==
    \A Name \in TrackNames :
        /\ CountPins(EGPD_Output, PC_Float, NoSubCategoryObject, Name)
             = CountTracks(TimelineTemplate.FloatTracks, Name)
        /\ CountPins(EGPD_Output, PC_Struct, VectorStruct, Name)
             = CountTracks(TimelineTemplate.VectorTracks, Name)
        /\ CountPins(EGPD_Output, PC_Struct, LinearColorStruct, Name)
             = CountTracks(TimelineTemplate.LinearColorTracks, Name)
        /\ CountPins(EGPD_Output, PC_Exec, NoSubCategoryObject, Name)
             = CountTracks(TimelineTemplate.EventTracks, Name)

NumTracks ==
    IF TimelineTemplate = NoTemplate THEN 0
    ELSE Len(TimelineTemplate.FloatTracks) + Len(TimelineTemplate.VectorTracks)
           + Len(TimelineTemplate.LinearColorTracks) + Len(TimelineTemplate.EventTracks)

\* C17 as stated: the track pins, plus 5 execution inputs, 2 execution
\* outputs, 1 time input and 1 direction output, and nothing else.
C17_PinsFiveExecInputs ==
    Pins # <<>> =>
        /\ TimelineTemplate.bFound => TrackPinsMatch
        /\ CountFixed(EGPD_Input, PC_Exec) = 5
        /\ CountFixed(EGPD_Output, PC_Exec) = 2
        /\ CountFixed(EGPD_Input, PC_Float) = 1
        /\ CountFixed(EGPD_Output, PC_Byte) = 1
        /\ Len(Pins) = NumTracks + 9

\* C17: AllocateDefaultPins creates exactly the N+M+K+J track-named pins of
\* the corresponding types, whatever the order of the tracks, plus the fixed
\* pins: 6 execution inputs (the five play controls and SetNewTime), 2
\* execution outputs, 1 time input and 1 direction output; with no template
\* only the fixed pins.
C17_PinsSixExecInputs ==
    Pins # <<>> =>
        /\ TimelineTemplate.bFound => TrackPinsMatch
        /\ CountFixed(EGPD_Input, PC_Exec) = 6
        /\ CountFixed(EGPD_Output, PC_Exec) = 2
        /\ CountFixed(EGPD_Input, PC_Float) = 1
        /\ CountFixed(EGPD_Output, PC_Byte) = 1
        /\ Len(Pins) = NumTracks + 10

\* Pins allocated for a template with tracks of all four kinds.
C17_Witness ==
    /\ Pins # <<>>
    /\ TimelineTemplate.bFound
    /\ Len(TimelineTemplate.FloatTracks) > 0 /\ Len(TimelineTemplate.VectorTracks) > 0
    /\ Len(TimelineTemplate.LinearColorTracks) > 0 /\ Len(TimelineTemplate.EventTracks) > 0

(***************************************************************************)
(* Editor utility widgets: specification and properties                    *)
(***************************************************************************)

CallReinitializeUIs == \E bReplaced, bExists \in BOOLEAN : ReinitializeUIs(bReplaced, bExists)
CallAddLoadedScriptUI == \E Path \in UIPaths : AddLoadedScriptUI(Path)
CallRemoveLoadedScriptUI == \E Path \in UIPaths : RemoveLoadedScriptUI(Path)
CallAssetChanged == \E Path \in UIPaths, Kind \in AssetKinds : AssetChanged(Path, Kind)

InitBlutility ==
    /\ EarlierIdle /\ ToolManagerIdle
    /\ AppendIdle /\ GridIdle /\ PinIdle /\ BlutilityInit /\ DataTableIdle /\ OctreeIdle

NextBlutility ==
    \/ CallReinitializeUIs
    \/ CallAddLoadedScriptUI
    \/ CallRemoveLoadedScriptUI
    \/ CallAssetChanged

SpecBlutility == InitBlutility /\ [][NextBlutility]_vars

\* The entry loads, is an editor-utility widget blueprint and has a generated class.
IsValidUI(Path) == Assets[Path] = Asset_Widget

\* C18: after ReinitializeUIs the list holds exactly the prior entries that
\* load, are of the widget class and have a generated class, each kept entry
\* has a tab spawner under its path plus _ActiveTab, and a run that follows
\* another run on unchanged assets leaves the list unchanged.
C18_KeepsExactlyValid ==
    [][uiCall'.op = "ReinitializeUIs" =>
         /\ LoadedUIs' = SelectSeq(LoadedUIs, IsValidUI)
         /\ \A i \in 1..Len(LoadedUIs') : RegistrationNameOf(LoadedUIs'[i]) \in TabSpawners'
         /\ uiCall.op = "ReinitializeUIs" => LoadedUIs' = LoadedUIs]_vars

\* What does hold of ReinitializeUIs: it keeps exactly the valid entries
\* whose spawner it registers in this run, which takes a tab manager without
\* a spawner under the entry's name; every kept entry has its spawner.
ReinitializeKeepsNewlyRegistered ==
    uiCall.op = "ReinitializeUIs" =>
        /\ LoadedUIs = SelectSeq(uiCall.before,
                                 LAMBDA Path : /\ IsValidUI(Path) /\ uiCall.bManager
                                               /\ RegistrationNameOf(Path) \notin uiCall.spawnersBefore)
        /\ \A i \in 1..Len(LoadedUIs) : RegistrationNameOf(LoadedUIs[i]) \in TabSpawners

(***************************************************************************)
(* Data-table row reference: specification and properties                  *)
(***************************************************************************)

CallAssignDataTable == \E DataTable \in {NoTable} \cup DataTables : AssignDataTable(DataTable)
CallOnSelectionChanged == \E i \in 1..Cardinality(TableRowNames) : OnSelectionChanged(i)

InitDataTable ==
    /\ EarlierIdle /\ ToolManagerIdle
    /\ AppendIdle /\ GridIdle /\ PinIdle /\ BlutilityIdle /\ DataTableInit /\ OctreeIdle

NextDataTable ==
    \/ OnDataTableChanged
    \/ CallAssignDataTable
    \/ CallOnSelectionChanged

SpecDataTable == InitDataTable /\ [][NextDataTable]_vars

\* The stored name is a row of the assigned table.
IsRowOfTable(RowName) ==
    \E i \in 1..Len(RowNamesOf(DataTableProp)) : RowNamesOf(DataTableProp)[i] = RowName

CallSetOctreeMemoryUsage ==
    \E Octree \in NavOctrees, NewSize \in 0..MaxOctreeBytes : SetOctreeMemoryUsage(Octree, NewSize)

InitOctree ==
    /\ EarlierIdle /\ ToolManagerIdle
    /\ AppendIdle /\ GridIdle /\ PinIdle /\ BlutilityIdle /\ DataTableIdle /\ OctreeInit

NextOctree == CallSetOctreeMemoryUsage

SpecOctree == InitOctree /\ [][NextOctree]_vars

\* Sum over the octrees of S of (current TotalSizeBytes minus initial TotalSizeBytes).
RECURSIVE SizeDelta(_)
SizeDelta(S) ==
    IF S = {} THEN 0
    ELSE LET Octree == CHOOSE o \in S : TRUE
         IN (TotalSizeBytes[Octree] - octreeCall.InitialSizes[Octree])
              + SizeDelta(S \ {Octree})

\* C20: each of the two counters differs from its initial value by the sum
\* over the octrees of (current minus initial TotalSizeBytes), and each
\* octree's TotalSizeBytes is the last size passed for it.
C20_CountersMirrorSizes ==
    /\ STAT_NavigationMemory - octreeCall.InitialNavigationMemory = SizeDelta(NavOctrees)
    /\ STAT_Navigation_CollisionTreeMemory - octreeCall.InitialCollisionTreeMemory
         = SizeDelta(NavOctrees)
    /\ \A Octree \in NavOctrees :
          octreeCall.LastSize[Octree] # <<>>
            => TotalSizeBytes[Octree] = octreeCall.LastSize[Octree][1]

\* Both octrees resized, one grown and one shrunk.
C20_Witness ==
    /\ \A Octree \in NavOctrees : octreeCall.LastSize[Octree] # <<>>
    /\ \E a, b \in NavOctrees :
          /\ TotalSizeBytes[a] > octreeCall.InitialSizes[a]
          /\ TotalSizeBytes[b] < octreeCall.InitialSizes[b]

(***************************************************************************)
(* Camera-cut track: removal                                               *)
(***************************************************************************)

\* C21: RemoveSection and RemoveSectionAt choose the neighbour fixup by the
\* rule of AddNewCameraCut: the blend-aware fixup when blending is enabled
\* on the track, the gap-closing fixup when it is disabled.
C21_RemovalFixupAsInsertion ==
    lastCall.op \in {"RemoveSection", "RemoveSectionAt"} =>
        lastCall.fixup = (IF bCanBlend THEN Fixup_Blending ELSE Fixup_GapClosing)

\* C22: for every track state and every section S at index i,
\* RemoveSection(S) and RemoveSectionAt(i) leave the same section list and
\* ranges.
C22_RemoveByReferenceAsByIndex ==
    \A i \in 1..Len(Sections) :
        RemoveSectionResults(Sections, bCanBlend, Sections[i].id)
          = RemoveSectionAtResults(Sections, bCanBlend, i)

(***************************************************************************)
(* Material cache: layer parameters, functions and the parallel arrays     *)
(***************************************************************************)
LayerScopes ==
    {<<GlobalParameter, -1>>}
      \cup {<<LayerParameter, i>> : i \in 0..(MaxLayers - 1)}
      \cup {<<BlendParameter, i>> : i \in 0..(MaxLayers - 2)}
LayerInfos == {MkInfo("N1", sc[1], sc[2]) : sc \in LayerScopes}

\* The values of the parent instance a call may be given.
ParentScalarValues == {[ParameterInfo |-> info, ParameterValue |-> 1] : info \in LayerInfos}
ParentFontValues ==
    {[ParameterInfo |-> MkInfo("N1", sc[1], sc[2]), FontValue |-> "FontB", FontPage |-> 1] :
        sc \in {<<LayerParameter, 0>>, <<BlendParameter, 0>>}}
ScalarValueLists == UNION {[1..n -> ParentScalarValues] : n \in 0..MaxLayerParams}
FontValueLists == {<<>>} \cup {<<f>> : f \in ParentFontValues}

FunctionScopes == {<<GlobalParameter, -1>>, <<LayerParameter, 0>>}
CacheExpressions ==
    {ScalarParameterExpr("N2", 1, 1), FontParameterExpr("N2", 1, "FontA"),
     FunctionCallExpr(GlyphFunction)}
CacheExpressionLists == UNION {[1..n -> CacheExpressions] : n \in 1..MaxExprs}

CallUpdateForLayerParameters ==
    \E scalars \in ScalarValueLists, fonts \in FontValueLists :
        UpdateForLayerParametersCall(scalars, fonts)
\* The same call with at most one value per list.
CallUpdateForLayerParametersOfOne ==
    \E scalars \in {l \in ScalarValueLists : Len(l) <= 1}, fonts \in FontValueLists :
        UpdateForLayerParametersCall(scalars, fonts)
CallUpdateForFunction ==
    \E fn \in FunctionNames \cup {GlyphFunction}, sc \in FunctionScopes :
        UpdateForFunctionCall(fn, sc[1], sc[2])
CallUpdateForExpressions == \E exprs \in CacheExpressionLists : UpdateForExpressionsCall(exprs)

InitLayers ==
    /\ CameraCutConstructed /\ MaterialInit /\ DistinctHashes /\ TraceInit
    /\ ToolManagerIdle /\ EditorIdle
    /\ CacheInit /\ ThreadIdle /\ ModuleIdle /\ SequenceIdle /\ LoopIdle

NextLayers ==
    \/ CallUpdateForLayerParameters
    \/ ResetCall

\* Layer-parameter updates under every layer setup of the model.
SpecLayers == InitLayers /\ [][NextLayers]_vars

InitCache ==
    /\ CameraCutConstructed /\ MaterialInit /\ DistinctHashes /\ TraceInit
    /\ ToolManagerIdle /\ EditorIdle
    /\ CacheFixed /\ ThreadIdle /\ ModuleIdle /\ SequenceIdle /\ LoopIdle

NextCache ==
    \/ CallUpdateForLayerParametersOfOne
    \/ CallUpdateForFunction
    \/ CallUpdateForExpressions
    \/ ResetCall

\* All the calls that insert parameters, interleaved, under one layer setup.
SpecCache == InitCache /\ [][NextCache]_vars

\* 0-based positions of a layer identifier in the local ParentLayerGuids.
PositionsOf(LocalMaterialLayers, LayerGuid) ==
    {j \in 0..(Len(LocalMaterialLayers.ParentLayerGuids) - 1) :
        LocalMaterialLayers.ParentLayerGuids[j + 1] = LayerGuid}

MinOf(S) == CHOOSE x \in S : \A y \in S : x <= y

\* The remapping rule for every parameter info of the parent.
RemapRule(MaterialLayers, LocalMaterialLayers) ==
    \A info \in LayerInfos :
        LET r == GetLocalLayerParameterInfo(MaterialLayers, info, LocalMaterialLayers)
            i == info.Index
            LayerPositions == PositionsOf(LocalMaterialLayers, MaterialLayers.LayerGuids[i + 1])
            BlendPositions == PositionsOf(LocalMaterialLayers, MaterialLayers.LayerGuids[i + 2])
        IN CASE info.Association = GlobalParameter -> ~r.ret
             [] info.Association = LayerParameter ->
                  /\ r.ret <=> LayerPositions # {}
                  /\ r.ret => r.info = MkInfo(info.Name, LayerParameter, MinOf(LayerPositions))
             [] info.Association = BlendParameter ->
                  /\ r.ret <=> BlendPositions # {}
                  /\ (r.ret /\ r.bCheck) =>
                        r.info = MkInfo(info.Name, BlendParameter, MinOf(BlendPositions) - 1)

InfosOf(Entry) == {Entry.ParameterInfos[k] : k \in 1..Len(Entry.ParameterInfos)}

\* The remapped infos of the values of a list that have a match.
RemappedInfos(params, MaterialLayers, LocalMaterialLayers) ==
    {GetLocalLayerParameterInfo(MaterialLayers, params[k].ParameterInfo,
                                LocalMaterialLayers).info :
        k \in {n \in 1..Len(params) :
                 GetLocalLayerParameterInfo(MaterialLayers, params[n].ParameterInfo,
                                            LocalMaterialLayers).ret}}

\* The parent's layers the call of the model finds, if any.
FoundParentLayers ==
    FindParentMaterialLayers(LayerSetup.MaterialLayersParameters,
                             LayerSetup.LayerParameters.ParameterInfo)

\* C23: GetLocalLayerParameterInfo never remaps a global parameter; a layer
\* parameter with parent index i is remapped exactly when the local
\* ParentLayerGuids contains the parent's LayerGuids[i], to the position j
\* of that identifier; a blend parameter with parent index i is looked up
\* through LayerGuids[i+1] and gets local index j-1; and
\* UpdateForLayerParameters inserts only remapped parameters, so a
\* parameter without match enters no table.
C23_LayerRemap ==
    [][cacheCall'.op = "UpdateForLayerParameters" =>
          /\ \A k \in 1..Len(LayerSetup.MaterialLayersParameters) :
                RemapRule(LayerSetup.MaterialLayersParameters[k].Value,
                          LayerSetup.LayerParameters.Value)
          /\ IF FoundParentLayers.bFound
             THEN /\ InfosOf(Cached'.Entry) =
                        InfosOf(Cached.Entry)
                          \cup RemappedInfos(cacheCall'.ScalarParameterValues, FoundParentLayers,
                                             LayerSetup.LayerParameters.Value)
                  /\ InfosOf(Cached'.FontEntry) =
                        InfosOf(Cached.FontEntry)
                          \cup RemappedInfos(cacheCall'.FontParameterValues, FoundParentLayers,
                                             LayerSetup.LayerParameters.Value)
             ELSE Cached' = Cached]_vars

\* A call with a remapped layer parameter, a layer parameter without match
\* and a blend parameter remapped to the index before its layer's position.
C23_Witness ==
    /\ cacheCall.op = "UpdateForLayerParameters"
    /\ FoundParentLayers.bFound
    /\ \E k \in 1..Len(cacheCall.ScalarParameterValues) :
          LET info == cacheCall.ScalarParameterValues[k].ParameterInfo
              r == GetLocalLayerParameterInfo(FoundParentLayers, info,
                                              LayerSetup.LayerParameters.Value)
          IN /\ info.Association = LayerParameter
             /\ r.ret
             /\ r.info \in InfosOf(Cached.Entry)
    /\ \E k \in 1..Len(cacheCall.ScalarParameterValues) :
          LET info == cacheCall.ScalarParameterValues[k].ParameterInfo
          IN /\ info.Association = LayerParameter
             /\ ~GetLocalLayerParameterInfo(FoundParentLayers, info,
                                            LayerSetup.LayerParameters.Value).ret
    /\ \E k \in 1..Len(cacheCall.FontParameterValues) :
          LET info == cacheCall.FontParameterValues[k].ParameterInfo
              r == GetLocalLayerParameterInfo(FoundParentLayers, info,
                                              LayerSetup.LayerParameters.Value)
          IN /\ info.Association = BlendParameter
             /\ r.ret
             /\ r.info \in InfosOf(Cached.FontEntry)
             /\ r.info.Index + 1 \in PositionsOf(LayerSetup.LayerParameters.Value,
                                                  FoundParentLayers.LayerGuids[info.Index + 2])
    /\ Len(Cached.Entry.ParameterInfos) = 1
    /\ Len(Cached.FontEntry.ParameterInfos) = 1

\* The scalar parameter expressions of a function's own list, by name.
ScalarDefinitions(fn, name) ==
    {k \in 1..Len(GetFunctionExpressions(fn)) :
        /\ GetFunctionExpressions(fn)[k].kind = "ScalarParameter"
        /\ GetFunctionExpressions(fn)[k].Name = name}

\* The walks a step has added to the history.
NewWalks(before, after) == SubSeq(after.Walks, Len(before.Walks) + 1, Len(after.Walks))

LengthsAgree(cd) ==
    /\ \A n \in {Len(cd.Entry.ParameterInfos), Len(cd.Entry.ExpressionGuids),
                 Len(cd.Entry.Overrides), Len(cd.ScalarValues), Len(cd.ScalarMinMaxValues),
                 Len(cd.ScalarCurveValues), Len(cd.ScalarCurveAtlasValues)} :
          n = Len(cd.Entry.NameHashes)
    /\ \A n \in {Len(cd.FontEntry.ParameterInfos), Len(cd.FontEntry.ExpressionGuids),
                 Len(cd.FontEntry.Overrides), Len(cd.FontValues), Len(cd.FontPageValues)} :
          n = Len(cd.FontEntry.NameHashes)

\* What position k of each kind says about its parameter (the expression id
\* aside, which a later expression may fill in for an override).
ScalarRows(cd) ==
    {<<cd.Entry.ParameterInfos[k], cd.Entry.NameHashes[k], cd.Entry.Overrides[k],
       cd.ScalarValues[k], cd.ScalarMinMaxValues[k], cd.ScalarCurveValues[k],
       cd.ScalarCurveAtlasValues[k]>> : k \in 1..Len(cd.Entry.NameHashes)}
FontRows(cd) ==
    {<<cd.FontEntry.ParameterInfos[k], cd.FontEntry.NameHashes[k], cd.FontEntry.Overrides[k],
       cd.FontValues[k], cd.FontPageValues[k]>> : k \in 1..Len(cd.FontEntry.NameHashes)}

C25_EncodingFitsBuffer ==
    \A k \in 1..Len(Records) : Len(Records[k].attachment) \in 1..BufferBytes

CallThreadBeginFrame == \E t \in Threads, FrameType \in FrameTypes : ThreadBeginFrame(t, FrameType)
CallThreadEndFrame == \E t \in Threads, FrameType \in FrameTypes : ThreadEndFrame(t, FrameType)
CallReadLastFrameCycle == \E t \in Threads : ReadLastFrameCycle(t)
CallWriteLastFrameCycle == \E t \in Threads : WriteLastFrameCycle(t)
CallEmitFrameRecord == \E t \in Threads : EmitFrameRecord(t)

InitThreads ==
    /\ CameraCutConstructed /\ MaterialInit /\ DistinctHashes
    /\ FrameChannelEnabled = TRUE
    /\ LastFrameCycle = [t \in FrameTypes |-> Zero64]
    /\ Records = <<>>
    /\ NumFrameCalls = 0
    /\ ToolManagerIdle /\ EditorIdle
    /\ CacheIdle /\ ThreadIdle /\ ModuleIdle /\ SequenceIdle /\ LoopIdle

NextThreads ==
    \/ CallThreadBeginFrame
    \/ CallThreadEndFrame
    \/ CallReadLastFrameCycle
    \/ CallWriteLastFrameCycle
    \/ CallEmitFrameRecord
    \/ ClockTick

SpecThreads == InitThreads /\ [][NextThreads]_vars

\* a + b modulo 2^64.
RECURSIVE AddGroups(_, _, _, _)
AddGroups(a, b, i, carry) ==
    IF i > NumGroups THEN <<>>
    ELSE LET d == a[i] + b[i] + carry IN
         <<d % GroupBase(i)>> \o AddGroups(a, b, i + 1, d \div GroupBase(i))

Add64(a, b) == AddGroups(a, b, 1, 0)

\* The sum, modulo 2^64, of the deltas the records carry.
RECURSIVE SumOfDeltas(_)
SumOfDeltas(recs) ==
    IF recs = <<>> THEN Zero64
    ELSE Add64(Decode7bit(Head(recs).attachment), SumOfDeltas(Tail(recs)))

\* C26: whatever the interleaving of OutputBeginFrame and OutputEndFrame
\* calls of several threads, once the calls have returned the deltas emitted
\* for a frame type sum to that type's LastFrameCycle (no update is lost),
\* and a step of a call for one frame type leaves the other type's
\* LastFrameCycle alone.
C26_NoLostUpdate ==
    (\A t \in Threads : Thread[t].pc = pc_Idle) =>
        \A FrameType \in FrameTypes :
            SumOfDeltas(RecordsOfType(Records, FrameType)) = LastFrameCycle[FrameType]

(***************************************************************************)
(* FBlutilityModule: what outlives ShutdownModule                          *)
(***************************************************************************)
CallShutdownModule ==
    \E bUObjectInitialized, bAssetToolsLoaded \in BOOLEAN :
        ShutdownModule(bUObjectInitialized, bAssetToolsLoaded)

\* The level editor broadcasts OnTabManagerChanged: ReinitializeUIs runs if
\* the module's delegate is still bound.
TabManagerChangedFires ==
    /\ Hook_TabManagerChanged \in Hooks
    /\ CallReinitializeUIs

InitModule ==
    /\ EarlierIdle /\ ToolManagerIdle
    /\ AppendIdle /\ GridIdle /\ PinIdle /\ BlutilityInit /\ DataTableIdle /\ OctreeIdle

NextModule ==
    \/ StartupModule
    \/ CallShutdownModule
    \/ TabManagerChangedFires
    \/ CallAddLoadedScriptUI
    \/ CallRemoveLoadedScriptUI
    \/ CallAssetChanged

SpecModule == InitModule /\ [][NextModule]_vars

\* The hooks the module installs with a callback into the module.
CallbackHooks == StartupHooks \ {Hook_CompilerForBP}

\* C27: after ShutdownModule with the object system initialized none of the
\* hooks StartupModule installed is left, so no callback of the module can
\* fire; with the object system not initialized ShutdownModule changes
\* nothing.
C27_ShutdownRemovesHooks ==
    moduleCall.op = "ShutdownModule" =>
        IF moduleCall.bUObjectInitialized
        THEN Hooks \cap CallbackHooks = {}
        ELSE Hooks = moduleCall.before

(***************************************************************************)
(* SAnimTimeline: crop, append and insert handlers                         *)
(***************************************************************************)
CallOnCropAnimSequence ==
    \E bFromStart \in BOOLEAN, CurrentFrame \in 0..MaxSeqFrames :
        OnCropAnimSequence(bFromStart, CurrentFrame)
CallOnAppendAnimSequence ==
    \E bFromStart \in BOOLEAN, NumOfFrames \in 1..2 : OnAppendAnimSequence(bFromStart, NumOfFrames)
CallOnInsertAnimSequence ==
    \E bBefore \in BOOLEAN, CurrentFrame \in 0..(Preview.NumFrames - 1) :
        OnInsertAnimSequence(bBefore, CurrentFrame)
CallScrubTo == \E Frame \in 0..(MaxSeqFrames - 1) : ScrubTo(Frame)

InitSequence ==
    /\ CameraCutConstructed /\ MaterialInit /\ DistinctHashes /\ TraceInit
    /\ ToolManagerIdle /\ EditorIdle
    /\ CacheIdle /\ ThreadIdle /\ ModuleIdle /\ SequenceInit /\ LoopIdle

NextSequence ==
    \/ CallOnCropAnimSequence
    \/ CallOnAppendAnimSequence
    \/ CallOnInsertAnimSequence
    \/ CallScrubTo

SpecSequence == InitSequence /\ [][NextSequence]_vars

SequenceHandlers == {"OnCropAnimSequence", "OnAppendAnimSequence", "OnInsertAnimSequence"}

\* C28: each of the crop, insert and append handlers, given a preview
\* instance whose asset is an animation sequence, mutates inside one undo
\* transaction, leaves the slider at frame zero and refreshes the model's
\* tracks once; without a preview instance or an animation sequence it
\* changes nothing.
C28_EditInTransactionThenRezero ==
    seqCall.op \in SequenceHandlers =>
        IF seqCall.bSequence
        THEN /\ seqCall.Transactions = 1
             /\ seqCall.Modified = {"PreviewInstance", "AnimSequence"}
             /\ Preview.Position = 0
             /\ seqCall.Refreshes = 1
        ELSE /\ Preview = seqCall.before
             /\ seqCall.Transactions = 0
             /\ seqCall.Modified = {}
             /\ seqCall.Refreshes = 0

(***************************************************************************)
(* ComputeGridSpacing: termination of the common-base loop                 *)
(***************************************************************************)
InitLoop ==
    /\ CameraCutConstructed /\ MaterialInit /\ DistinctHashes /\ TraceInit
    /\ ToolManagerIdle /\ EditorIdle
    /\ CacheIdle /\ ThreadIdle /\ ModuleIdle /\ SequenceIdle /\ LoopInit

NextLoop == LoopPass

SpecBaseLoop == InitLoop /\ [][NextLoop]_vars

\* The loop runs on its own: a pass that can be taken is taken.
SpecBaseLoopFair == SpecBaseLoop /\ WF_vars(LoopPass)

\* C30: for every rounded display frame rate of 0 or more the loop that
\* builds CommonBases reaches its break.
C30_LoopTerminates == <>(baseLoop.pc = pc_Done)

====
